---- MODULE Spec2Model ----
\* A model of the admission controller (app/rate_limiter.py, GlobalRateLimiter)
\* and of the code around it.
\*
\* Time is a wall clock counted in ticks, TicksPerHour ticks to the hour; instant 0
\* is a midnight.  Money is counted in micro-dollars (1e-6 $), so the float
\* expression (tokens / 1_000_000) * price is the integer tokens * price; float
\* rounding error of the additions is not modelled.
\*
\* Spec runs each public operation as one step at one clock instant: every
\* operation holds self._lock for its whole body and does in-memory bookkeeping
\* only.  SpecThreads runs the operations statement by statement on several
\* threads, with the lock modelled explicitly.  SpecChat is the /chat handler
\* (app/main.py) with the RAG engine (app/rag.py), SpecRag the RAG engine
\* called directly, SpecLog the usage logger (app/logger.py) written to by
\* several threads, SpecIngest one ingestion of a source (scripts/ingest.py).
EXTENDS Integers, Sequences, FiniteSets, Bags, TLC

\* ---------------------------------------------------------------- bounds
\* Clock resolution.
TicksPerHour == 2
\* settings.rate_limit_per_hour (RATE_LIMIT_PER_HOUR, default 30), taken small.
rate_limit_per_hour == 2
\* The clock runs from StartTime to StartTime + MaxElapsed.
MaxElapsed == 5
\* record_usage calls counted per day.
MaxRecords == 2
\* SpecThreads: the clock runs from StartTime to StartTime + MaxDrift.
MaxDrift == 3
\* SpecChat: /chat requests that may be in progress at once.
MaxInFlight == 1
\* SpecRag: the largest top_k a direct caller passes.
MaxTopK == 2
\* SpecLog: threads that log, and log_request calls each makes.
MaxLoggers == 2
MaxLogCalls == 2
\* SpecIngest: the most chunks one source is split into.
MaxChunks == 2

\* ------------------------------------------------------------- constants
HoursPerDay == 24
SecondsPerHour == 3600
MinutesPerHour == 60
\* settings.max_daily_cost = 5.0 dollars, in micro-dollars.
max_daily_cost == 5000000
\* Dollars per million input / output tokens.
InputPrice == 3
OutputPrice == 15
\* round(x, 4) keeps multiples of 1e-4 $ = 100 micro-dollars.
RoundUnit == 100
\* settings.retrieval_top_k
retrieval_top_k == 5
\* scripts/ingest.py: vectors per upsert call, and matches asked of index.query.
batch_size == 100
query_top_k == 10000

emergency_message == "API temporarily disabled for maintenance"

Hour == TicksPerHour
Day == HoursPerDay * Hour

\* The controller is constructed late in a day, so that the run crosses two
\* hourly reset instants and one midnight.
StartTime == Day - Hour - 1
MaxTime == StartTime + MaxElapsed

\* The <<input_tokens, output_tokens>> offered to record_usage: nothing, costs
\* that round(., 4) rounds down (30) and half-way (150), one below the daily
\* ceiling (3 $) and the 18 $ of test_cost_calculation.
UsageChoices == {<<0, 0>>, <<10, 0>>, <<0, 10>>, <<1000000, 0>>, <<1000000, 1000000>>}

\* SpecThreads offers a small and a large one.
ThreadUsageChoices == {<<10, 0>>, <<1000000, 1000000>>}

VARIABLES
    now,            \* datetime.now()
    api_enabled,    \* settings.api_enabled
    rate_limiter,   \* the GlobalRateLimiter instance: a record of its attributes
    last,           \* outcome of the latest operation: a return value or an exception
    admitted,       \* history: instants of the successful admissions of the trailing hour
    nChecks,        \* history: check_rate_limit calls made in the first hourly window
    recorded,       \* history: bag of the <<input, output>> recorded on day recordedDay
    recordedDay,
    _lock,          \* self._lock.locked()
    pc,             \* SpecThreads: the statement each thread is at
    frame,          \* SpecThreads: each thread's arguments and local variables
    result,         \* SpecThreads: what each thread's call returned or raised
    chat,           \* SpecChat: each /chat handler's position and local variables
    calls,          \* SpecChat history: the calls each handler made, in order
    logged,         \* SpecChat history: the entries each handler gave to log_request
    served,         \* SpecChat history: requests that have reached the handler
    log_file,       \* SpecLog: what the file at log_file_path holds
    log_start,      \* SpecLog history: what it held when the UsageLogger was built
    usage_logger,   \* SpecLog: the UsageLogger instance
    logging,        \* SpecLog: each thread's position in log_request and its locals
    index,          \* SpecIngest: the vectors the Pinecone index stores
    ingest          \* SpecIngest: the ingest_source_to_pinecone call and its locals

histVars == <<last, admitted, nChecks, recorded, recordedDay>>
threadVars == <<_lock, pc, frame, result>>
chatVars == <<chat, calls, logged, served>>
logVars == <<log_file, log_start, usage_logger, logging>>
ingestVars == <<index, ingest>>
vars == <<now, api_enabled, rate_limiter, histVars, threadVars, logVars, ingestVars, chatVars, logVars, ingestVars>>

\* ------------------------------------------------------------- helpers
Min(a, b) == IF a <= b THEN a ELSE b

\* int(x) of the quotient a / b, b > 0: truncation toward zero.
IntDiv(a, b) == IF a >= 0 THEN a \div b ELSE -((-a) \div b)

\* datetime.now().replace(hour=0, minute=0, second=0, microsecond=0)
Midnight(t) == (t \div Day) * Day

\* round(c, 4) on micro-dollars.  A value half-way between two multiples goes
\* to whichever side the binary float happens to lie: both are possible.
Round4(c) ==
    LET lo == (c \div RoundUnit) * RoundUnit
        r == c % RoundUnit
    IN  IF 2 * r < RoundUnit THEN {lo}
        ELSE IF 2 * r > RoundUnit THEN {lo + RoundUnit}
        ELSE {lo, lo + RoundUnit}

NoException == [status_code |-> 0]
HTTPException(code, detail) == [status_code |-> code, detail |-> detail]
Raised(e) == e.status_code # 0

\* ---------------------------------------------- GlobalRateLimiter, private
\* Fault: the rollover moves the reset instant and keeps the timestamps.
_reset_hourly_data_keeps(self, t) ==
    [self EXCEPT !.hourly_reset_time = t + Hour]

\* Fault: the hourly rollover zeroes the daily totals as well.
_check_hourly_reset_zeroing(self, t) ==
    IF t >= self.hourly_reset_time
    THEN [self EXCEPT !.hourly_requests = <<>>, !.hourly_reset_time = t + Hour,
                      !.daily_tokens_used = 0, !.daily_estimated_cost = 0]
    ELSE self

\* Fault: the next reset instant is the current instant, the hour left out.
_reset_hourly_data_at_now(self, t) ==
    [self EXCEPT !.hourly_requests = <<>>,
                 !.hourly_reset_time = t]

_reset_hourly_data(self, t) ==
    [self EXCEPT !.hourly_requests = <<>>,
                 !.hourly_reset_time = t + Hour]

\* Fault: the next daily reset is put at the midnight that has just passed.
_reset_daily_data_today(self, t) ==
    [self EXCEPT !.daily_tokens_used = 0,
                 !.daily_estimated_cost = 0,
                 !.daily_reset_time = Midnight(t)]

_reset_daily_data(self, t) ==
    [self EXCEPT !.daily_tokens_used = 0,
                 !.daily_estimated_cost = 0,
                 !.daily_reset_time = Midnight(t) + Day]

\* Fault: the comparison is turned round, keeping the old entries only.
_clean_old_requests_inverted(self, t) ==
    LET cutoff_time == t - Hour
        Keep(req_time) == req_time < cutoff_time
    IN  [self EXCEPT !.hourly_requests = SelectSeq(@, Keep)]

\* Fault: the cutoff lies half an hour back.
_clean_old_requests_half_hour(self, t) ==
    LET cutoff_time == t - (Hour \div 2)
        Keep(req_time) == req_time > cutoff_time
    IN  [self EXCEPT !.hourly_requests = SelectSeq(@, Keep)]

_clean_old_requests(self, t) ==
    LET cutoff_time == t - Hour
        Keep(req_time) == req_time > cutoff_time
    IN  [self EXCEPT !.hourly_requests = SelectSeq(@, Keep)]

\* Fault: the rollover is taken from the start of the window on, not from its end.
_check_hourly_reset_early(self, t) ==
    IF t >= self.hourly_reset_time - Hour THEN _reset_hourly_data(self, t) ELSE self

_check_hourly_reset(self, t) ==
    IF t >= self.hourly_reset_time THEN _reset_hourly_data(self, t) ELSE self

_check_daily_reset(self, t) ==
    IF t >= self.daily_reset_time THEN _reset_daily_data(self, t) ELSE self

_check_api_enabled(enabled) ==
    IF ~enabled
    THEN HTTPException(503, emergency_message)
    ELSE NoException

\* Fault: > for >=, admitting one request too many.
_check_hourly_limit_strict(self, current_count, t) ==
    IF current_count > rate_limit_per_hour
    THEN HTTPException(429,
             [error |-> "Rate limit exceeded",
              current_usage |-> <<current_count, rate_limit_per_hour>>,
              reset_in_minutes |->
                  IntDiv((self.hourly_reset_time - t) * MinutesPerHour, Hour),
              try_again_at |-> self.hourly_reset_time])
    ELSE NoException

_check_hourly_limit(self, current_count, t) ==
    IF current_count >= rate_limit_per_hour
    THEN LET time_until_reset == self.hourly_reset_time - t
         IN  HTTPException(429,
                 [error |-> "Rate limit exceeded",
                  current_usage |-> <<current_count, rate_limit_per_hour>>,
                  reset_in_minutes |-> IntDiv(time_until_reset * MinutesPerHour, Hour),
                  try_again_at |-> self.hourly_reset_time])
    ELSE NoException

_check_cost_limit(self) ==
    IF self.daily_estimated_cost >= max_daily_cost
    THEN HTTPException(429,
             [error |-> "Daily cost limit exceeded",
              current_cost |-> self.daily_estimated_cost,
              resets_at |-> self.daily_reset_time])
    ELSE NoException

\* __init__ at instant t
GlobalRateLimiter(t) ==
    _reset_daily_data(
        _reset_hourly_data(
            [hourly_requests |-> <<>>, hourly_reset_time |-> 0,
             daily_tokens_used |-> 0, daily_estimated_cost |-> 0,
             daily_reset_time |-> 0], t), t)

\* ----------------------------------------------- GlobalRateLimiter, public
\* The values returned.
\* Fault: the snapshot counts the requests before the one being admitted.
check_return_pre_increment(self, current_count) ==
    [requests_this_hour |-> current_count,
     limit_per_hour |-> rate_limit_per_hour,
     remaining_this_hour |-> rate_limit_per_hour - current_count - 1,
     daily_cost |-> self.daily_estimated_cost,
     daily_cost_limit |-> max_daily_cost]

check_return(self, current_count) ==
    [requests_this_hour |-> current_count + 1,
     limit_per_hour |-> rate_limit_per_hour,
     remaining_this_hour |-> rate_limit_per_hour - current_count - 1,
     daily_cost |-> self.daily_estimated_cost,
     daily_cost_limit |-> max_daily_cost]

input_cost(input_tokens) == input_tokens * InputPrice
\* Fault: output tokens charged at the input price.
output_cost_input_price(output_tokens) == output_tokens * InputPrice

output_cost(output_tokens) == output_tokens * OutputPrice
total_cost(input_tokens, output_tokens) ==
    input_cost(input_tokens) + output_cost(output_tokens)

record_return(self, input_tokens, output_tokens) ==
    [tokens_used |-> input_tokens + output_tokens,
     estimated_cost |-> total_cost(input_tokens, output_tokens),
     daily_total_tokens |-> self.daily_tokens_used,
     daily_total_cost |-> self.daily_estimated_cost]

\* rc and rr are the outcomes of the two round(., 4).
stats_return(self, enabled, current_count, time_until_hourly_reset, time_until_daily_reset, rc, rr) ==
    [api_enabled |-> enabled,
     hourly_stats |->
         [requests_used |-> current_count,
          requests_limit |-> rate_limit_per_hour,
          requests_remaining |-> rate_limit_per_hour - current_count,
          resets_in_seconds |-> IntDiv(time_until_hourly_reset * SecondsPerHour, Hour),
          resets_at |-> self.hourly_reset_time],
     daily_stats |->
         [tokens_used |-> self.daily_tokens_used,
          estimated_cost |-> rc,
          cost_limit |-> max_daily_cost,
          cost_remaining |-> rr,
          resets_in_seconds |-> IntDiv(time_until_daily_reset * SecondsPerHour, Hour),
          resets_at |-> self.daily_reset_time]]

\* The operations run under the lock at instant t.  Each yields [self: the
\* instance afterwards, exc: the exception raised or NoException, ret: the
\* value returned].
\* Fault: the kill switch is looked at after the rollovers and the pruning.
check_rate_limit_gate_late(self, t, enabled) ==
    LET gate == _check_api_enabled(enabled)
        s == _clean_old_requests(_check_daily_reset(_check_hourly_reset(self, t), t), t)
        current_count == Len(s.hourly_requests)
        over == _check_hourly_limit(s, current_count, t)
        cost == _check_cost_limit(s)
        appended == [s EXCEPT !.hourly_requests = Append(@, t)]
    IN  IF Raised(gate) THEN [self |-> s, exc |-> gate, ret |-> <<>>]
        ELSE IF Raised(over) THEN [self |-> s, exc |-> over, ret |-> <<>>]
        ELSE IF Raised(cost) THEN [self |-> s, exc |-> cost, ret |-> <<>>]
        ELSE [self |-> appended, exc |-> NoException,
              ret |-> check_return(appended, current_count)]

\* Fault: the cost ceiling is tested before the hourly ceiling.
check_rate_limit_cost_first(self, t, enabled) ==
    LET gate == _check_api_enabled(enabled)
        s == _clean_old_requests(_check_daily_reset(_check_hourly_reset(self, t), t), t)
        current_count == Len(s.hourly_requests)
        over == _check_hourly_limit(s, current_count, t)
        cost == _check_cost_limit(s)
        appended == [s EXCEPT !.hourly_requests = Append(@, t)]
    IN  IF Raised(gate) THEN [self |-> self, exc |-> gate, ret |-> <<>>]
        ELSE IF Raised(cost) THEN [self |-> s, exc |-> cost, ret |-> <<>>]
        ELSE IF Raised(over) THEN [self |-> s, exc |-> over, ret |-> <<>>]
        ELSE [self |-> appended, exc |-> NoException,
              ret |-> check_return(appended, current_count)]

\* Fault: the timestamp is stored before the ceilings are tested.
check_rate_limit_counting_rejected(self, t, enabled) ==
    LET gate == _check_api_enabled(enabled)
        s == _clean_old_requests(_check_daily_reset(_check_hourly_reset(self, t), t), t)
        current_count == Len(s.hourly_requests)
        over == _check_hourly_limit(s, current_count, t)
        cost == _check_cost_limit(s)
        appended == [s EXCEPT !.hourly_requests = Append(@, t)]
    IN  IF Raised(gate) THEN [self |-> self, exc |-> gate, ret |-> <<>>]
        ELSE IF Raised(over) THEN [self |-> appended, exc |-> over, ret |-> <<>>]
        ELSE IF Raised(cost) THEN [self |-> appended, exc |-> cost, ret |-> <<>>]
        ELSE [self |-> appended, exc |-> NoException,
              ret |-> check_return(appended, current_count)]

\* Fault: the kill switch is looked at last, after the two ceilings.
check_rate_limit_gate_last(self, t, enabled) ==
    LET gate == _check_api_enabled(enabled)
        s == _clean_old_requests(_check_daily_reset(_check_hourly_reset(self, t), t), t)
        current_count == Len(s.hourly_requests)
        over == _check_hourly_limit(s, current_count, t)
        cost == _check_cost_limit(s)
        appended == [s EXCEPT !.hourly_requests = Append(@, t)]
    IN  IF Raised(over) THEN [self |-> s, exc |-> over, ret |-> <<>>]
        ELSE IF Raised(cost) THEN [self |-> s, exc |-> cost, ret |-> <<>>]
        ELSE IF Raised(gate) THEN [self |-> s, exc |-> gate, ret |-> <<>>]
        ELSE [self |-> appended, exc |-> NoException,
              ret |-> check_return(appended, current_count)]

\* Fault: the hourly ceiling is not tested, the cost ceiling alone rejects.
check_rate_limit_skipping_hourly(self, t, enabled) ==
    LET gate == _check_api_enabled(enabled)
        s == _clean_old_requests(_check_daily_reset(_check_hourly_reset(self, t), t), t)
        current_count == Len(s.hourly_requests)
        cost == _check_cost_limit(s)
        appended == [s EXCEPT !.hourly_requests = Append(@, t)]
    IN  IF Raised(gate) THEN [self |-> self, exc |-> gate, ret |-> <<>>]
        ELSE IF Raised(cost) THEN [self |-> s, exc |-> cost, ret |-> <<>>]
        ELSE [self |-> appended, exc |-> NoException,
              ret |-> check_return(appended, current_count)]

check_rate_limit(self, t, enabled) ==
    LET gate == _check_api_enabled(enabled)
        s == _clean_old_requests(_check_daily_reset(_check_hourly_reset(self, t), t), t)
        current_count == Len(s.hourly_requests)
        over == _check_hourly_limit(s, current_count, t)
        cost == _check_cost_limit(s)
        appended == [s EXCEPT !.hourly_requests = Append(@, t)]
    IN  IF Raised(gate) THEN [self |-> self, exc |-> gate, ret |-> <<>>]
        ELSE IF Raised(over) THEN [self |-> s, exc |-> over, ret |-> <<>>]
        ELSE IF Raised(cost) THEN [self |-> s, exc |-> cost, ret |-> <<>>]
        ELSE [self |-> appended, exc |-> NoException,
              ret |-> check_return(appended, current_count)]

\* Fault: usage is refused once the daily cost has reached its ceiling.
record_usage_rejecting(self, t, input_tokens, output_tokens) ==
    LET s == _check_daily_reset(self, t)
        cost == _check_cost_limit(s)
        after == [s EXCEPT
            !.daily_tokens_used = @ + (input_tokens + output_tokens),
            !.daily_estimated_cost = @ + total_cost(input_tokens, output_tokens)]
    IN  IF Raised(cost) THEN [self |-> s, exc |-> cost, ret |-> <<>>]
        ELSE [self |-> after, exc |-> NoException,
              ret |-> record_return(after, input_tokens, output_tokens)]

\* Fault: = for +=, the totals hold the latest call only.
record_usage_overwriting(self, t, input_tokens, output_tokens) ==
    LET s == _check_daily_reset(self, t)
        after == [s EXCEPT
            !.daily_tokens_used = input_tokens + output_tokens,
            !.daily_estimated_cost = total_cost(input_tokens, output_tokens)]
    IN  [self |-> after, exc |-> NoException,
         ret |-> record_return(after, input_tokens, output_tokens)]

\* Fault: record_usage rolls the hourly window over as the other two do.
record_usage_rolling_hour(self, t, input_tokens, output_tokens) ==
    LET s == _check_daily_reset(_check_hourly_reset(self, t), t)
        after == [s EXCEPT
            !.daily_tokens_used = @ + (input_tokens + output_tokens),
            !.daily_estimated_cost = @ + total_cost(input_tokens, output_tokens)]
    IN  [self |-> after, exc |-> NoException,
         ret |-> record_return(after, input_tokens, output_tokens)]

\* Fault: the daily cost stops at its ceiling.
record_usage_capped(self, t, input_tokens, output_tokens) ==
    LET s == _check_daily_reset(self, t)
        after == [s EXCEPT
            !.daily_tokens_used = @ + (input_tokens + output_tokens),
            !.daily_estimated_cost =
                Min(@ + total_cost(input_tokens, output_tokens), max_daily_cost)]
    IN  [self |-> after, exc |-> NoException,
         ret |-> record_return(after, input_tokens, output_tokens)]

\* Fault: the usage is added first and the daily window rolled over after it.
record_usage_rolling_last(self, t, input_tokens, output_tokens) ==
    LET added == [self EXCEPT
            !.daily_tokens_used = @ + (input_tokens + output_tokens),
            !.daily_estimated_cost = @ + total_cost(input_tokens, output_tokens)]
        after == _check_daily_reset(added, t)
    IN  [self |-> after, exc |-> NoException,
         ret |-> record_return(after, input_tokens, output_tokens)]

record_usage(self, t, input_tokens, output_tokens) ==
    LET s == _check_daily_reset(self, t)
        after == [s EXCEPT
            !.daily_tokens_used = @ + (input_tokens + output_tokens),
            !.daily_estimated_cost = @ + total_cost(input_tokens, output_tokens)]
    IN  [self |-> after, exc |-> NoException,
         ret |-> record_return(after, input_tokens, output_tokens)]

\* Fault: the snapshot is taken without the rollover checks.
get_stats_stale(self, t, enabled, rc, rr) ==
    LET s == _clean_old_requests(self, t)
    IN  [self |-> s, exc |-> NoException,
         ret |-> stats_return(s, enabled, Len(s.hourly_requests),
                              s.hourly_reset_time - t, s.daily_reset_time - t, rc, rr)]

\* Fault: asking for the statistics takes a slot of the hour.
get_stats_counting_itself(self, t, enabled, rc, rr) ==
    LET s == _clean_old_requests(_check_daily_reset(_check_hourly_reset(self, t), t), t)
        appended == [s EXCEPT !.hourly_requests = Append(@, t)]
    IN  [self |-> appended, exc |-> NoException,
         ret |-> stats_return(s, enabled, Len(s.hourly_requests),
                              s.hourly_reset_time - t, s.daily_reset_time - t, rc, rr)]

get_stats(self, t, enabled, rc, rr) ==
    LET s == _clean_old_requests(_check_daily_reset(_check_hourly_reset(self, t), t), t)
    IN  [self |-> s, exc |-> NoException,
         ret |-> stats_return(s, enabled, Len(s.hourly_requests),
                              s.hourly_reset_time - t, s.daily_reset_time - t, rc, rr)]

\* ------------------------------------------------------------ RAGEngine
\* app/rag.py.  A text is a string; a text put together from pieces is the
\* sequence of the pieces.  An optional argument is <<>> (None) or <<value>>.
\* Scores are counted in thousandths.
claude_model == "claude-sonnet-4-5-20250929"
no_information == "I don't have any information in my knowledge base to answer that question."

\* An exception that is not an HTTPException: it carries no status code.
ProviderError(msg) == [status_code |-> -1, detail |-> msg]

\* What similarity_search_with_score may return: <<document, score>> pairs in
\* relevance order; the second document's metadata has no source.
DocA == [page_content |-> "Content A", metadata |-> [source |-> "a.pdf"]]
DocB == [page_content |-> "Content B", metadata |-> [page |-> "1"]]
SearchResults == {<<>>, <<<<DocA, 950>>>>, <<<<DocB, 900>>, <<DocA, 400>>>>}

\* What messages.create may return: the usage it reports and one content
\* block, or none at all.
MessageOf(content, u) == [content |-> content, usage |-> [input_tokens |-> u[1], output_tokens |-> u[2]]]
Messages == {MessageOf(<<[text |-> "This is a test answer"]>>, u) : u \in ThreadUsageChoices} \cup {MessageOf(<<>>, <<10, 0>>)}

_format_chunk(chunk) == <<"[Source: ", chunk.source, "]\n", chunk.content>>

\* k = top_k or settings.retrieval_top_k
retrieval_k(top_k) ==
    IF top_k # <<>> /\ top_k[1] # 0 THEN top_k[1] ELSE retrieval_top_k

\* Fault: the chunks are collected last result first.
retrieve_context_reversed(results) ==
    [i \in 1 .. Len(results) |->
        LET doc == results[Len(results) + 1 - i][1]
            score == results[Len(results) + 1 - i][2]
        IN  [content |-> doc.page_content,
             source |-> IF "source" \in DOMAIN doc.metadata
                        THEN doc.metadata.source ELSE "unknown",
             score |-> score]]

\* retrieve_context, after the search has returned results.
retrieve_context(results) ==
    [i \in 1 .. Len(results) |->
        LET doc == results[i][1]
            score == results[i][2]
        IN  [content |-> doc.page_content,
             source |-> IF "source" \in DOMAIN doc.metadata
                        THEN doc.metadata.source ELSE "unknown",
             score |-> score]]

\* sep.join(parts), each part a sequence of pieces.
RECURSIVE Join(_, _)
Join(parts, sep) ==
    IF parts = <<>> THEN <<>>
    ELSE IF Len(parts) = 1 THEN parts[1]
    ELSE parts[1] \o <<sep>> \o Join(Tail(parts), sep)

\* USER_PROMPT_TEMPLATE.format(context=context, query=query): the text before
\* {context}, between {context} and {query}, and after {query}.
prompt_head == "Context from knowledge base:\n\n"
prompt_middle == "\n\n---\n\nQuestion: "
prompt_tail == "\n\nPlease provide a helpful and accurate answer based on the context above."

\* Fault: only the most relevant chunk is put into the context.
user_prompt_first_chunk(query, context_chunks) ==
    <<prompt_head>> \o _format_chunk(context_chunks[1]) \o <<prompt_middle, query, prompt_tail>>

\* generate_response up to the call of messages.create: the user prompt.
user_prompt(query, context_chunks) ==
    LET context == Join([i \in 1 .. Len(context_chunks) |-> _format_chunk(context_chunks[i])], "\n\n")
    IN  <<prompt_head>> \o context \o <<prompt_middle, query, prompt_tail>>

\* Fault: the two token counts are returned in each other's place.
generate_response_swapping_counts(context_chunks, response) ==
    IF response.content = <<>>
    THEN [exc |-> ProviderError("IndexError"), ret |-> <<>>]
    ELSE [exc |-> NoException,
          ret |-> [answer |-> response.content[1].text,
                   sources |-> context_chunks,
                   input_tokens |-> response.usage.output_tokens,
                   output_tokens |-> response.usage.input_tokens,
                   model |-> claude_model]]

\* generate_response after messages.create has returned response.
generate_response(context_chunks, response) ==
    IF response.content = <<>>
    THEN [exc |-> ProviderError("IndexError"), ret |-> <<>>]
    ELSE [exc |-> NoException,
          ret |-> [answer |-> response.content[1].text,
                   sources |-> context_chunks,
                   input_tokens |-> response.usage.input_tokens,
                   output_tokens |-> response.usage.output_tokens,
                   model |-> claude_model]]

\* query, when retrieval came back empty.
no_information_response ==
    [answer |-> no_information, sources |-> <<>>,
     input_tokens |-> 0, output_tokens |-> 0, model |-> claude_model]

\* ---------------------------------------------------------- UsageLogger
\* app/logger.py, log_request: the entry handed to the console and the file.
\* round(estimated_cost, 6) keeps whole micro-dollars, which all costs are.
log_request(endpoint, input_tokens, output_tokens, estimated_cost, success, error, metadata) ==
    [endpoint |-> endpoint,
     tokens |-> [input |-> input_tokens, output |-> output_tokens,
                 total |-> input_tokens + output_tokens],
     estimated_cost_usd |-> estimated_cost,
     success |-> success,
     error |-> error,
     metadata |-> metadata]

\* What the log file may hold.  A file that json.load reads as a list is
\* ArrayFile(logs), logs the list: json.dump and json.load take the entries
\* modelled here (strings, integers, booleans, string-keyed maps) to
\* themselves.  ObjectFile is valid JSON that is not a list ('{}');
\* InvalidFile is text that is not valid JSON ('{invalid json', or nothing at
\* all); UndecodableFile is bytes that are no text in the encoding open() uses.
ArrayFile(logs) == [kind |-> "array", logs |-> logs]
ObjectFile == [kind |-> "object", logs |-> <<>>]
InvalidFile == [kind |-> "invalid", logs |-> <<>>]
UndecodableFile == [kind |-> "undecodable", logs |-> <<>>]

\* ------------------------------------------------------- scripts/ingest.py
\* A vector of the index: its id and the source of its metadata.  The id
\* f"{source_name}-chunk-{i}" is the triple of its parts.
chunk_id(source_name, i) == <<source_name, "-chunk-", i>>
Vector(id, source) == [id |-> id, source |-> source]

\* index.upsert(vectors=batch): the vectors replace those of the same ids.
upsert(stored, batch) ==
    {v \in stored : \A j \in 1 .. Len(batch) : batch[j].id # v.id}
        \cup {batch[j] : j \in 1 .. Len(batch)}

\* index.query(filter={"source": {"$eq": source}}, top_k=10000): the sets of
\* ids the matches may have, all of them when there are at most top_k.
query_matches(stored, source) ==
    LET ids == {v.id : v \in {w \in stored : w.source = source}}
    IN  IF Cardinality(ids) <= query_top_k THEN {ids}
        ELSE {m \in SUBSET ids : Cardinality(m) = query_top_k}

\* index.delete(ids=...)
delete(stored, ids) == {v \in stored : v.id \notin ids}

\* Fault: every id found for the source counts as an orphan.
orphans_all(existing_ids, new_ids) == existing_ids

\* orphan_ids = existing_ids - new_ids
orphans(existing_ids, new_ids) == existing_ids \ new_ids

\* ------------------------------------------------------------ the machine
\* What a call did: the operation, the instant it ran at, its arguments, the
\* exception it raised (or NoException) and the value it returned.
Outcome(op, at, args, exc, ret) ==
    [op |-> op, at |-> at, args |-> args, exc |-> exc, ret |-> ret]

InFirstWindow == now < StartTime + Hour
Today == now \div Day

\* SpecThreads: one more caller than the hourly ceiling admits.
Threads == 1 .. (rate_limit_per_hour + 1)

\* SpecChat: the /chat handlers in progress.
Handlers == 1 .. MaxInFlight

NoChat ==
    [pc |-> "idle", message |-> "", top_k |-> <<>>, exc |-> NoException,
     usage_stats |-> <<>>, query |-> "", k |-> 0, results |-> <<>>, chunks |-> <<>>,
     created |-> <<>>,
     user_prompt |-> <<>>,
     rag_response |-> <<>>, usage_record |-> <<>>, response |-> <<>>,
     state |-> ""]

NoFrame ==
    [op |-> "", input_tokens |-> 0, output_tokens |-> 0, current_count |-> 0,
     tmp |-> 0, time_until_hourly_reset |-> 0, time_until_daily_reset |-> 0]

\* SpecLog: the threads that log.
LogThreads == 1 .. MaxLoggers

NoLogging ==
    [pc |-> "idle", made |-> 0, log_entry |-> <<>>, found |-> "", logs |-> <<>>]

\* usage_logger = UsageLogger(): the file exists and nothing is being logged.
InitIdleLogger ==
    /\ log_file = ArrayFile(<<>>)
    /\ log_start = log_file
    /\ usage_logger = [_lock |-> FALSE]
    /\ logging = [t \in LogThreads |-> NoLogging]

NoIngest ==
    [pc |-> "idle", chunks |-> <<>>, source_name |-> "", chunk_ids |-> <<>>,
     vectors_to_upsert |-> <<>>, i |-> 0, stored |-> {}, existing_ids |-> {},
     query_raised |-> FALSE, orphan_ids |-> {}, deleted_count |-> 0, ret |-> <<>>,
     upserts |-> <<>>, deletes |-> <<>>]

InitIdleIngest ==
    /\ index = {}
    /\ ingest = NoIngest

\* The process starts at instant t: the module-level rate_limiter is built.
InitLimiter(t) ==
    /\ now = t
    /\ api_enabled \in BOOLEAN
    /\ rate_limiter = GlobalRateLimiter(t)
    /\ last = Outcome("__init__", t, <<>>, NoException, <<>>)
    /\ admitted = <<>>
    /\ nChecks = 0
    /\ recorded = EmptyBag
    /\ recordedDay = t \div Day
    /\ _lock = FALSE
    /\ pc = [th \in Threads |-> "idle"]
    /\ frame = [th \in Threads |-> NoFrame]
    /\ result = [th \in Threads |-> Outcome("", t, <<>>, NoException, <<>>)]
    /\ logged = [h \in Handlers |-> <<>>]
    /\ served = 0

\* No request has reached the /chat handler.
InitIdleChat ==
    /\ chat = [h \in Handlers |-> NoChat]
    /\ calls = [h \in Handlers |-> <<>>]

InitAt(t) ==
    /\ InitLimiter(t)
    /\ InitIdleChat
    /\ InitIdleLogger
    /\ InitIdleIngest

Init == InitAt(StartTime)

\* ------------------------------------------- Spec: one step per operation
Tick ==
    /\ now < MaxTime
    /\ now' = now + 1
    /\ UNCHANGED <<api_enabled, rate_limiter, histVars, threadVars, logVars, ingestVars, chatVars, logVars, ingestVars>>

TrailingHour(seq) ==
    LET Young(t) == t > now - Hour IN SelectSeq(seq, Young)

CheckRateLimit ==
    LET r == check_rate_limit(rate_limiter, now, api_enabled)
    IN  /\ rate_limiter' = r.self
        /\ last' = Outcome("check_rate_limit", now, <<>>, r.exc, r.ret)
        /\ admitted' = IF Raised(r.exc) THEN TrailingHour(admitted)
                       ELSE Append(TrailingHour(admitted), now)
        /\ nChecks' = IF InFirstWindow
                      THEN Min(nChecks + 1, rate_limit_per_hour + 2)
                      ELSE 0
        /\ UNCHANGED <<now, api_enabled, recorded, recordedDay, threadVars, logVars, ingestVars, chatVars, logVars, ingestVars>>

RecordUsage(input_tokens, output_tokens) ==
    LET r == record_usage(rate_limiter, now, input_tokens, output_tokens)
        today == IF recordedDay = Today THEN recorded ELSE EmptyBag
    IN  /\ BagCardinality(today) < MaxRecords
        /\ rate_limiter' = r.self
        /\ last' = Outcome("record_usage", now, <<input_tokens, output_tokens>>, r.exc, r.ret)
        /\ recorded' = today (+) SetToBag({<<input_tokens, output_tokens>>})
        /\ recordedDay' = Today
        /\ UNCHANGED <<now, api_enabled, admitted, nChecks, threadVars, logVars, ingestVars, chatVars, logVars, ingestVars>>

GetStats ==
    LET cost == _check_daily_reset(rate_limiter, now).daily_estimated_cost
    IN  \E rc \in Round4(cost), rr \in Round4(max_daily_cost - cost) :
            LET r == get_stats(rate_limiter, now, api_enabled, rc, rr)
            IN  /\ rate_limiter' = r.self
                /\ last' = Outcome("get_stats", now, <<>>, r.exc, r.ret)
                /\ UNCHANGED <<now, api_enabled, admitted, nChecks, recorded,
                               recordedDay, threadVars, logVars, ingestVars, chatVars, logVars, ingestVars>>

Next ==
    \/ Tick
    \/ CheckRateLimit
    \/ \E u \in UsageChoices : RecordUsage(u[1], u[2])
    \/ GetStats

Spec == Init /\ [][Next]_vars

\* ------------------------------------ SpecThreads: one step per statement
\* Each thread makes one call.  A step is one statement of the operation's
\* body (cNNN, rNNN, gNNN: line NNN of rate_limiter.py); an augmented
\* assignment is a load and a store.  datetime.now() reads the clock of the step.
TickT ==
    /\ now < StartTime + MaxDrift
    /\ now' = now + 1
    /\ UNCHANGED <<api_enabled, rate_limiter, histVars, threadVars, logVars, ingestVars, chatVars, logVars, ingestVars>>

\* Fault: the lock is taken without waiting for it.
acquire_without_waiting == _lock' = TRUE

\* with self._lock: entering blocks while another thread holds the lock.
acquire == ~_lock /\ _lock' = TRUE

Goto(t, label) == pc' = [pc EXCEPT ![t] = label]
SetFrame(t, f) == frame' = [frame EXCEPT ![t] = f]
At(t, label) == pc[t] = label

\* Leaving the with block, by return or by exception, releases the lock.
Leave(t, exc, ret) ==
    /\ _lock' = FALSE
    /\ Goto(t, "done")
    /\ result' = [result EXCEPT ![t] =
           Outcome(frame[t].op, now, <<frame[t].input_tokens, frame[t].output_tokens>>,
                   exc, ret)]

\* Threads are interchangeable: they are numbered in the order they enter.
Enter(t, op, input_tokens, output_tokens, first) ==
    /\ At(t, "idle")
    /\ \A u \in Threads : u < t => ~At(u, "idle")
    /\ acquire
    /\ Goto(t, first)
    /\ SetFrame(t, [NoFrame EXCEPT !.op = op, !.input_tokens = input_tokens,
                                   !.output_tokens = output_tokens])
    /\ UNCHANGED <<now, api_enabled, rate_limiter, histVars, result, chatVars, logVars, ingestVars>>

\* A statement that updates the instance and goes on.
Update(t, label, self, next) ==
    /\ At(t, label)
    /\ rate_limiter' = self
    /\ Goto(t, next)
    /\ UNCHANGED <<now, api_enabled, histVars, _lock, frame, result, chatVars, logVars, ingestVars>>

\* A statement that assigns locals and goes on.
Local(t, label, f, next) ==
    /\ At(t, label)
    /\ SetFrame(t, f)
    /\ Goto(t, next)
    /\ UNCHANGED <<now, api_enabled, rate_limiter, histVars, _lock, result, chatVars, logVars, ingestVars>>

\* A statement that may raise, and goes on when it does not.
Guard(t, label, exc, next) ==
    /\ At(t, label)
    /\ IF Raised(exc)
       THEN Leave(t, exc, <<>>)
       ELSE Goto(t, next) /\ UNCHANGED <<_lock, result>>
    /\ UNCHANGED <<now, api_enabled, rate_limiter, histVars, frame, chatVars, logVars, ingestVars>>

Return(t, label, ret) ==
    /\ At(t, label)
    /\ Leave(t, NoException, ret)
    /\ UNCHANGED <<now, api_enabled, rate_limiter, histVars, frame, chatVars, logVars, ingestVars>>

\* check_rate_limit
c150(t) == Enter(t, "check_rate_limit", 0, 0, "c151")
c151(t) == Guard(t, "c151", _check_api_enabled(api_enabled), "c152")
c152(t) == Update(t, "c152", _check_hourly_reset(rate_limiter, now), "c153")
c153(t) == Update(t, "c153", _check_daily_reset(rate_limiter, now), "c154")
c154(t) == Update(t, "c154", _clean_old_requests(rate_limiter, now), "c156")
c156(t) ==
    Local(t, "c156",
          [frame[t] EXCEPT !.current_count = Len(rate_limiter.hourly_requests)], "c157")
c157(t) ==
    Guard(t, "c157", _check_hourly_limit(rate_limiter, frame[t].current_count, now), "c158")
c158(t) == Guard(t, "c158", _check_cost_limit(rate_limiter), "c160")
c160(t) ==
    Update(t, "c160", [rate_limiter EXCEPT !.hourly_requests = Append(@, now)], "c162")
c162(t) == Return(t, "c162", check_return(rate_limiter, frame[t].current_count))

\* record_usage
\* Fault: record_usage runs without the lock.
r171_unlocked(t, input_tokens, output_tokens) ==
    /\ At(t, "idle")
    /\ \A u \in Threads : u < t => ~At(u, "idle")
    /\ Goto(t, "r172")
    /\ SetFrame(t, [NoFrame EXCEPT !.op = "record_usage", !.input_tokens = input_tokens,
                                   !.output_tokens = output_tokens])
    /\ UNCHANGED <<now, api_enabled, rate_limiter, histVars, result, _lock, chatVars, logVars, ingestVars>>

r171(t, input_tokens, output_tokens) ==
    Enter(t, "record_usage", input_tokens, output_tokens, "r172")
r172(t) == Update(t, "r172", _check_daily_reset(rate_limiter, now), "r181")
r181(t) ==
    Local(t, "r181", [frame[t] EXCEPT !.tmp = rate_limiter.daily_tokens_used], "r181s")
r181s(t) ==
    Update(t, "r181s",
           [rate_limiter EXCEPT !.daily_tokens_used =
                frame[t].tmp + (frame[t].input_tokens + frame[t].output_tokens)],
           "r182")
r182(t) ==
    Local(t, "r182", [frame[t] EXCEPT !.tmp = rate_limiter.daily_estimated_cost], "r182s")
r182s(t) ==
    Update(t, "r182s",
           [rate_limiter EXCEPT !.daily_estimated_cost =
                frame[t].tmp + total_cost(frame[t].input_tokens, frame[t].output_tokens)],
           "r184")
r184(t) ==
    Return(t, "r184",
           record_return(rate_limiter, frame[t].input_tokens, frame[t].output_tokens))

\* get_stats
g192(t) == Enter(t, "get_stats", 0, 0, "g193")
g193(t) == Update(t, "g193", _check_hourly_reset(rate_limiter, now), "g194")
g194(t) == Update(t, "g194", _check_daily_reset(rate_limiter, now), "g195")
g195(t) == Update(t, "g195", _clean_old_requests(rate_limiter, now), "g197")
g197(t) ==
    Local(t, "g197",
          [frame[t] EXCEPT !.current_count = Len(rate_limiter.hourly_requests)], "g198")
g198(t) ==
    Local(t, "g198",
          [frame[t] EXCEPT !.time_until_hourly_reset = rate_limiter.hourly_reset_time - now],
          "g199")
g199(t) ==
    Local(t, "g199",
          [frame[t] EXCEPT !.time_until_daily_reset = rate_limiter.daily_reset_time - now],
          "g201")
g201(t) ==
    \E rc \in Round4(rate_limiter.daily_estimated_cost),
       rr \in Round4(max_daily_cost - rate_limiter.daily_estimated_cost) :
        Return(t, "g201",
               stats_return(rate_limiter, api_enabled, frame[t].current_count,
                            frame[t].time_until_hourly_reset,
                            frame[t].time_until_daily_reset, rc, rr))

NextThreads ==
    \/ TickT
    \/ \E t \in Threads : c150(t)
    \/ \E t \in Threads : c151(t)
    \/ \E t \in Threads : c152(t)
    \/ \E t \in Threads : c153(t)
    \/ \E t \in Threads : c154(t)
    \/ \E t \in Threads : c156(t)
    \/ \E t \in Threads : c157(t)
    \/ \E t \in Threads : c158(t)
    \/ \E t \in Threads : c160(t)
    \/ \E t \in Threads : c162(t)
    \/ \E t \in Threads, u \in ThreadUsageChoices : r171(t, u[1], u[2])
    \/ \E t \in Threads : r172(t)
    \/ \E t \in Threads : r181(t)
    \/ \E t \in Threads : r181s(t)
    \/ \E t \in Threads : r182(t)
    \/ \E t \in Threads : r182s(t)
    \/ \E t \in Threads : r184(t)
    \/ \E t \in Threads : g192(t)
    \/ \E t \in Threads : g193(t)
    \/ \E t \in Threads : g194(t)
    \/ \E t \in Threads : g195(t)
    \/ \E t \in Threads : g197(t)
    \/ \E t \in Threads : g198(t)
    \/ \E t \in Threads : g199(t)
    \/ \E t \in Threads : g201(t)

SpecThreads == Init /\ [][NextThreads]_vars

\* ------------------------------------- SpecChat: the /chat request handler
\* app/main.py, chat, with RAGEngine.query inlined.  A step is a call of the
\* admission controller, of a provider or of the logger (mNNN: line NNN of
\* main.py; qNNN, rNNN, gNNN: of rag.py); a provider call is issued in one
\* step and answered in a later one.  The handler is a coroutine that never
\* awaits, so one event loop serves the requests one after another
\* (MaxInFlight = 1); with more handlers the model also admits the
\* interleavings of a threaded server.
\* The service starts one tick before midnight, so that midnight can pass
\* between any two steps while the first hourly window is still open.
ChatStart == Midnight(StartTime) + Day - 1

InitChat == InitAt(ChatStart)

TickChat ==
    /\ now = ChatStart
    /\ now' = now + 1
    /\ UNCHANGED <<api_enabled, rate_limiter, histVars, threadVars, logVars, ingestVars, chatVars, logVars, ingestVars>>

\* The events of a handler's history.
Call(f) == <<"call", f>>
Ret(f) == <<"return", f>>
Exc(f) == <<"raise", f>>

\* ChatRequest.top_k: absent, or an integer from 1 to 20.
TopKChoices == {<<>>, <<1>>}

\* Handler h does one step: its frame becomes f and its history grows by events.
ChatStep(h, label, f, events) ==
    /\ chat[h].pc = label
    /\ chat' = [chat EXCEPT ![h] = f]
    /\ calls' = [calls EXCEPT ![h] = @ \o events]

\* A request reaches the handler.  One more request is served than the hourly
\* ceiling admits; the first free handler takes it.
Arrive(h, message, top_k) ==
    /\ chat[h].pc \in {"idle", "done"}
    /\ \A g \in Handlers : g < h => chat[g].pc \notin {"idle", "done"}
    /\ served < rate_limit_per_hour + 1
    /\ served' = served + 1
    /\ chat' = [chat EXCEPT ![h] =
           [NoChat EXCEPT !.pc = "m91", !.message = message, !.top_k = top_k]]
    /\ calls' = [calls EXCEPT ![h] = <<>>]
    /\ logged' = [logged EXCEPT ![h] = <<>>]
    /\ UNCHANGED <<now, api_enabled, rate_limiter, histVars, threadVars, logVars, ingestVars>>

\* usage_stats = rate_limiter.check_rate_limit()
m91(h) ==
    LET r == check_rate_limit(rate_limiter, now, api_enabled)
    IN  /\ IF Raised(r.exc)
           THEN ChatStep(h, "m91", [chat[h] EXCEPT !.pc = "m93", !.exc = r.exc],
                         <<Call("check_rate_limit"), Exc("check_rate_limit")>>)
           ELSE ChatStep(h, "m91", [chat[h] EXCEPT !.pc = "m104", !.usage_stats = r.ret],
                         <<Call("check_rate_limit"), Ret("check_rate_limit")>>)
        /\ rate_limiter' = r.self
        /\ UNCHANGED <<now, api_enabled, histVars, threadVars, logVars, ingestVars, logged, served>>

\* except HTTPException as e: usage_logger.log_request(..., success=False, ...)
m93(h) ==
    /\ ChatStep(h, "m93", [chat[h] EXCEPT !.pc = "m101"],
                <<Call("log_request"), Ret("log_request")>>)
    /\ logged' = [logged EXCEPT ![h] =
           Append(@, log_request("/chat", 0, 0, 0, FALSE, <<chat[h].exc.detail>>, <<>>))]
    /\ UNCHANGED <<now, api_enabled, rate_limiter, histVars, threadVars, logVars, ingestVars, served>>

\* Fault: the rejection is swallowed and the handler goes on to the query.
m101_goes_on(h) ==
    /\ ChatStep(h, "m101", [chat[h] EXCEPT !.pc = "m104"], <<>>)
    /\ UNCHANGED <<now, api_enabled, rate_limiter, histVars, threadVars, logVars, ingestVars, logged, served>>

\* raise: the response carries the admission error.
m101(h) ==
    /\ ChatStep(h, "m101",
                [chat[h] EXCEPT !.pc = "done",
                     !.response = [status_code |-> chat[h].exc.status_code,
                                   detail |-> <<chat[h].exc.detail>>]],
                <<>>)
    /\ UNCHANGED <<now, api_enabled, rate_limiter, histVars, threadVars, logVars, ingestVars, logged, served>>

\* rag_response = query_rag(request.message, request.top_k): query is entered.
m104(h) ==
    /\ ChatStep(h, "m104", [chat[h] EXCEPT !.pc = "q104", !.state = "START"],
                <<Call("query_rag")>>)
    /\ UNCHANGED <<now, api_enabled, rate_limiter, histVars, threadVars, logVars, ingestVars, logged, served>>

\* chunks = self.retrieve_context(question, top_k): the search is issued.
q104(h) ==
    /\ ChatStep(h, "q104",
                [chat[h] EXCEPT !.pc = "r66", !.state = "RETRIEVING",
                                !.query = chat[h].message,
                                !.k = retrieval_k(chat[h].top_k)],
                <<Call("similarity_search_with_score")>>)
    /\ UNCHANGED <<now, api_enabled, rate_limiter, histVars, threadVars, logVars, ingestVars, logged, served>>

\* Fault: a failed search is taken for an empty result.
r66_raises_masked(h) ==
    /\ ChatStep(h, "r66",
                [chat[h] EXCEPT !.pc = "m109", !.state = "EMPTY_RESULT",
                                !.rag_response = no_information_response],
                <<Exc("similarity_search_with_score"), Ret("query_rag")>>)
    /\ UNCHANGED <<now, api_enabled, rate_limiter, histVars, threadVars, logVars, ingestVars, logged, served>>

\* Fault: a request whose search fails gives its hourly slot back.
r66_raises_refunding(h) ==
    /\ ChatStep(h, "r66",
                [chat[h] EXCEPT !.pc = "m139", !.state = "FAILED",
                                !.exc = ProviderError("search failed")],
                <<Exc("similarity_search_with_score"), Exc("query_rag")>>)
    /\ rate_limiter' = [rate_limiter EXCEPT !.hourly_requests =
           SubSeq(@, 1, Len(@) - 1)]
    /\ UNCHANGED <<now, api_enabled, histVars, threadVars, logVars, ingestVars, logged, served>>

\* The search fails: the exception leaves retrieve_context and query.
r66_raises(h) ==
    /\ ChatStep(h, "r66",
                [chat[h] EXCEPT !.pc = "m139", !.state = "FAILED",
                                !.exc = ProviderError("search failed")],
                <<Exc("similarity_search_with_score"), Exc("query_rag")>>)
    /\ UNCHANGED <<now, api_enabled, rate_limiter, histVars, threadVars, logVars, ingestVars, logged, served>>

\* Fault: generation is called with no chunks as well.
r66_returns_always_generating(h, results) ==
    LET chunks == retrieve_context(results)
    IN  /\ Len(results) <= chat[h].k
        /\ ChatStep(h, "r66",
                    [chat[h] EXCEPT !.pc = "g83", !.state = "GENERATING",
                         !.results = results, !.chunks = chunks,
                         !.user_prompt = user_prompt(chat[h].message, chunks)],
                    <<Ret("similarity_search_with_score"), Call("messages.create")>>)
        /\ UNCHANGED <<now, api_enabled, rate_limiter, histVars, threadVars, logVars, ingestVars, logged, served>>

\* The search returns results, at most k of them: retrieve_context returns the
\* chunks; query returns the 'no information' answer when there are none and
\* otherwise calls generate_response, which issues messages.create.
r66_returns(h, results) ==
    LET chunks == retrieve_context(results)
    IN  /\ Len(results) <= chat[h].k
        /\ IF chunks = <<>>
           THEN ChatStep(h, "r66",
                         [chat[h] EXCEPT !.pc = "m109", !.state = "EMPTY_RESULT",
                              !.results = results, !.chunks = chunks,
                              !.rag_response = no_information_response],
                         <<Ret("similarity_search_with_score"), Ret("query_rag")>>)
           ELSE ChatStep(h, "r66",
                         [chat[h] EXCEPT !.pc = "g83", !.state = "GENERATING",
                              !.results = results, !.chunks = chunks,
                              !.user_prompt = user_prompt(chat[h].message, chunks)],
                         <<Ret("similarity_search_with_score"), Call("messages.create")>>)
        /\ UNCHANGED <<now, api_enabled, rate_limiter, histVars, threadVars, logVars, ingestVars, logged, served>>

\* Fault: a failed generation is tried once more.
g83_raises_retrying(h) ==
    /\ ChatStep(h, "g83", chat[h], <<Exc("messages.create"), Call("messages.create")>>)
    /\ UNCHANGED <<now, api_enabled, rate_limiter, histVars, threadVars, logVars, ingestVars, logged, served>>

\* Fault: a failed generation is answered with an empty answer and no tokens.
g83_raises_partial(h) ==
    /\ ChatStep(h, "g83",
                [chat[h] EXCEPT !.pc = "m109", !.state = "DONE",
                     !.rag_response = [no_information_response EXCEPT !.answer = ""]],
                <<Exc("messages.create"), Ret("query_rag")>>)
    /\ UNCHANGED <<now, api_enabled, rate_limiter, histVars, threadVars, logVars, ingestVars, logged, served>>

\* messages.create fails: the exception leaves generate_response and query.
g83_raises(h) ==
    /\ ChatStep(h, "g83",
                [chat[h] EXCEPT !.pc = "m139", !.state = "FAILED",
                                !.exc = ProviderError("generation failed")],
                <<Exc("messages.create"), Exc("query_rag")>>)
    /\ UNCHANGED <<now, api_enabled, rate_limiter, histVars, threadVars, logVars, ingestVars, logged, served>>

\* messages.create returns: generate_response builds the result, or fails on
\* a response without content; query returns the result as it is.
g83_returns(h, response) ==
    LET r == generate_response(chat[h].chunks, response)
    IN  /\ IF Raised(r.exc)
           THEN ChatStep(h, "g83",
                         [chat[h] EXCEPT !.pc = "m139", !.state = "FAILED", !.exc = r.exc,
                                         !.created = response],
                         <<Ret("messages.create"), Exc("query_rag")>>)
           ELSE ChatStep(h, "g83",
                         [chat[h] EXCEPT !.pc = "m109", !.state = "DONE",
                                         !.rag_response = r.ret, !.created = response],
                         <<Ret("messages.create"), Ret("query_rag")>>)
        /\ UNCHANGED <<now, api_enabled, rate_limiter, histVars, threadVars, logVars, ingestVars, logged, served>>

\* Fault: the success entry is written first and the usage recorded after it.
m109_logs_first(h) ==
    LET input_tokens == chat[h].rag_response.input_tokens
        output_tokens == chat[h].rag_response.output_tokens
        r == record_usage(rate_limiter, now, input_tokens, output_tokens)
    IN  /\ ChatStep(h, "m109", [chat[h] EXCEPT !.pc = "m125", !.usage_record = r.ret],
                    <<Call("log_request"), Ret("log_request"),
                      Call("record_usage"), Ret("record_usage")>>)
        /\ logged' = [logged EXCEPT ![h] =
               Append(@, log_request("/chat", input_tokens, output_tokens,
                                     total_cost(input_tokens, output_tokens),
                                     TRUE, <<>>, <<>>))]
        /\ rate_limiter' = r.self
        /\ UNCHANGED <<now, api_enabled, histVars, threadVars, logVars, ingestVars, served>>

\* usage_record = rate_limiter.record_usage(input_tokens, output_tokens)
m109(h) ==
    LET input_tokens == chat[h].rag_response.input_tokens
        output_tokens == chat[h].rag_response.output_tokens
        r == record_usage(rate_limiter, now, input_tokens, output_tokens)
    IN  /\ chat[h].pc = "m109"
        /\ IF Raised(r.exc)
           THEN ChatStep(h, "m109", [chat[h] EXCEPT !.pc = "m139", !.exc = r.exc],
                         <<Call("record_usage"), Exc("record_usage")>>)
           ELSE ChatStep(h, "m109", [chat[h] EXCEPT !.pc = "m112", !.usage_record = r.ret],
                         <<Call("record_usage"), Ret("record_usage")>>)
        /\ rate_limiter' = r.self
        /\ UNCHANGED <<now, api_enabled, histVars, threadVars, logVars, ingestVars, logged, served>>

\* usage_logger.log_request(..., success=True, metadata=...)
m112(h) ==
    LET rag_response == chat[h].rag_response
        metadata == [message_length |-> chat[h].message,
                     sources_count |-> Len(rag_response.sources),
                     top_k |-> retrieval_k(chat[h].top_k)]
    IN  /\ ChatStep(h, "m112", [chat[h] EXCEPT !.pc = "m125"],
                    <<Call("log_request"), Ret("log_request")>>)
        /\ logged' = [logged EXCEPT ![h] =
               Append(@, log_request("/chat", rag_response.input_tokens,
                                     rag_response.output_tokens,
                                     chat[h].usage_record.estimated_cost,
                                     TRUE, <<>>, <<metadata>>))]
        /\ UNCHANGED <<now, api_enabled, rate_limiter, histVars, threadVars, logVars, ingestVars, served>>

\* return {...}: every modelled content is shorter than the 200 characters
\* kept, and round(score, 3) keeps thousandths.
m125(h) ==
    LET rag_response == chat[h].rag_response
    IN  /\ ChatStep(h, "m125",
                    [chat[h] EXCEPT !.pc = "done",
                         !.response =
                             [status_code |-> 200,
                              detail |-> <<[answer |-> rag_response.answer,
                                    sources |-> [i \in 1 .. Len(rag_response.sources) |->
                                        [content |-> rag_response.sources[i].content,
                                         source |-> rag_response.sources[i].source,
                                         relevance_score |-> rag_response.sources[i].score]],
                                    tokens_used |-> rag_response.input_tokens
                                                        + rag_response.output_tokens,
                                    estimated_cost |-> chat[h].usage_record.estimated_cost]>>]],
                    <<>>)
        /\ UNCHANGED <<now, api_enabled, rate_limiter, histVars, threadVars, logVars, ingestVars, logged, served>>

\* Fault: the failure is logged twice.
m139_twice(h) ==
    LET entry == log_request("/chat", 0, 0, 0, FALSE, <<chat[h].exc.detail>>, <<>>)
    IN  /\ ChatStep(h, "m139", [chat[h] EXCEPT !.pc = "m148"],
                    <<Call("log_request"), Ret("log_request"),
                      Call("log_request"), Ret("log_request")>>)
        /\ logged' = [logged EXCEPT ![h] = @ \o <<entry, entry>>]
        /\ UNCHANGED <<now, api_enabled, rate_limiter, histVars, threadVars, logVars, ingestVars, served>>

\* except Exception as e: usage_logger.log_request(..., success=False, ...)
m139(h) ==
    /\ ChatStep(h, "m139", [chat[h] EXCEPT !.pc = "m148"],
                <<Call("log_request"), Ret("log_request")>>)
    /\ logged' = [logged EXCEPT ![h] =
           Append(@, log_request("/chat", 0, 0, 0, FALSE, <<chat[h].exc.detail>>, <<>>))]
    /\ UNCHANGED <<now, api_enabled, rate_limiter, histVars, threadVars, logVars, ingestVars, served>>

\* raise HTTPException(status_code=500, detail=f"Error processing request: {str(e)}")
m148(h) ==
    /\ ChatStep(h, "m148",
                [chat[h] EXCEPT !.pc = "done",
                     !.response =
                         [status_code |-> 500,
                          detail |-> <<"Error processing request: ", chat[h].exc.detail>>]],
                <<>>)
    /\ UNCHANGED <<now, api_enabled, rate_limiter, histVars, threadVars, logVars, ingestVars, logged, served>>

NextChat ==
    \/ TickChat
    \/ \E h \in Handlers, top_k \in TopKChoices : Arrive(h, "test", top_k)
    \/ \E h \in Handlers : m91(h)
    \/ \E h \in Handlers : m93(h)
    \/ \E h \in Handlers : m101(h)
    \/ \E h \in Handlers : m104(h)
    \/ \E h \in Handlers : q104(h)
    \/ \E h \in Handlers : r66_raises(h)
    \/ \E h \in Handlers, results \in SearchResults : r66_returns(h, results)
    \/ \E h \in Handlers : g83_raises(h)
    \/ \E h \in Handlers, response \in Messages : g83_returns(h, response)
    \/ \E h \in Handlers : m109(h)
    \/ \E h \in Handlers : m112(h)
    \/ \E h \in Handlers : m125(h)
    \/ \E h \in Handlers : m139(h)
    \/ \E h \in Handlers : m148(h)

SpecChat == InitChat /\ [][NextChat]_vars

\* ------------------------------------- SpecRag: query_rag called directly
\* query_rag(question, top_k) is called by code other than the /chat handler,
\* which validates nothing: top_k is None or any integer from 0 on.  Each
\* caller makes one call; the steps are those of SpecChat, and the labels
\* m109 and m139 stand for the caller's continuation after a return and after
\* an exception.
Questions == {"test", "What is this?"}
DirectTopK == {<<>>} \cup {<<n>> : n \in 0 .. MaxTopK}

\* The frame of a caller that has just called query_rag(question, top_k).
query_rag(question, top_k) ==
    [NoChat EXCEPT !.pc = "q104", !.state = "START",
                   !.message = question, !.top_k = top_k]

InitRag ==
    /\ InitLimiter(StartTime)
    /\ InitIdleLogger
    /\ InitIdleIngest
    /\ chat \in [Handlers -> {query_rag(q, top_k) : q \in Questions, top_k \in DirectTopK}]
    /\ calls = [h \in Handlers |-> <<Call("query_rag")>>]

NextRag ==
    \/ \E h \in Handlers : q104(h)
    \/ \E h \in Handlers : r66_raises(h)
    \/ \E h \in Handlers, results \in SearchResults : r66_returns(h, results)
    \/ \E h \in Handlers : g83_raises(h)
    \/ \E h \in Handlers, response \in Messages : g83_returns(h, response)

SpecRag == InitRag /\ [][NextRag]_vars

\* ---------------------------- SpecLog: threads logging to one UsageLogger
\* app/logger.py, statement by statement (lNNN: line NNN of logger.py).  The
\* threads are those of test_thread_safety: each calls log_request
\* MaxLogCalls times.  The file is whatever was at log_file_path when the
\* UsageLogger was built; open() and the writes themselves are taken to succeed.
OldEntry == log_request("/chat", 10, 0, 30, TRUE, <<>>, <<>>)
InitialLogFiles == {ArrayFile(<<>>), ArrayFile(<<OldEntry>>), ObjectFile, InvalidFile, UndecodableFile}

\* The entry thread t logs in its call number i.
EntryOf(t, i) ==
    log_request("/chat", 100, 50, 1000, TRUE, <<>>, <<[thread_id |-> t, iteration |-> i]>>)

InitLog ==
    /\ InitLimiter(StartTime)
    /\ InitIdleChat
    /\ InitIdleIngest
    /\ log_file \in InitialLogFiles
    /\ log_start = log_file
    /\ usage_logger = [_lock |-> FALSE]
    /\ logging = [t \in LogThreads |-> NoLogging]

\* Thread t does one step: its frame becomes f.
LogStep(t, label, f) ==
    /\ logging[t].pc = label
    /\ logging' = [logging EXCEPT ![t] = f]
    /\ UNCHANGED <<now, api_enabled, rate_limiter, histVars, threadVars, chatVars, ingestVars, log_start>>

\* log_request: the entry is built and printed to the console.
l66(t) ==
    /\ logging[t].made < MaxLogCalls
    /\ LogStep(t, "idle", [NoLogging EXCEPT !.pc = "l111", !.made = logging[t].made,
                                            !.log_entry = EntryOf(t, logging[t].made)])
    /\ UNCHANGED <<log_file, usage_logger>>

\* Fault: the file is read and written without the lock being waited for.
l111_without_waiting(t) ==
    /\ LogStep(t, "l111", [logging[t] EXCEPT !.pc = "l114"])
    /\ usage_logger' = [usage_logger EXCEPT !._lock = TRUE]
    /\ UNCHANGED log_file

\* with self._lock:
l111(t) ==
    /\ ~usage_logger._lock
    /\ LogStep(t, "l111", [logging[t] EXCEPT !.pc = "l114"])
    /\ usage_logger' = [usage_logger EXCEPT !._lock = TRUE]
    /\ UNCHANGED log_file

\* with open(self.log_file_path, 'r') as f: logs = json.load(f).  Text that is
\* not valid JSON raises JSONDecodeError; bytes that are no text raise
\* UnicodeDecodeError, which only 'except Exception' catches.
l114(t) ==
    /\ LogStep(t, "l114",
               [logging[t] EXCEPT !.found = log_file.kind, !.logs = log_file.logs,
                    !.pc = CASE log_file.kind = "invalid" -> "l125"
                             [] log_file.kind = "undecodable" -> "l131"
                             [] OTHER -> "l117"])
    /\ UNCHANGED <<log_file, usage_logger>>

\* logs.append(log_entry): what was read has no append unless it is a list.
l117(t) ==
    /\ IF logging[t].found = "array"
       THEN LogStep(t, "l117", [logging[t] EXCEPT !.pc = "l120",
                                    !.logs = Append(@, logging[t].log_entry)])
       ELSE LogStep(t, "l117", [logging[t] EXCEPT !.pc = "l131"])
    /\ UNCHANGED <<log_file, usage_logger>>

\* with open(self.log_file_path, 'w') as f: the file is emptied.
l120(t) ==
    /\ LogStep(t, "l120", [logging[t] EXCEPT !.pc = "l121"])
    /\ log_file' = InvalidFile
    /\ UNCHANGED usage_logger

\* json.dump(logs, f, indent=2)
l121(t) ==
    /\ LogStep(t, "l121", [logging[t] EXCEPT !.pc = "exit"])
    /\ log_file' = ArrayFile(logging[t].logs)
    /\ UNCHANGED usage_logger

\* except json.JSONDecodeError: with open(self.log_file_path, 'w') as f:
l125(t) ==
    /\ LogStep(t, "l125", [logging[t] EXCEPT !.pc = "l126"])
    /\ log_file' = InvalidFile
    /\ UNCHANGED usage_logger

\* json.dump([log_entry], f, indent=2)
l126(t) ==
    /\ LogStep(t, "l126", [logging[t] EXCEPT !.pc = "exit"])
    /\ log_file' = ArrayFile(<<logging[t].log_entry>>)
    /\ UNCHANGED usage_logger

\* except Exception as e: print(...)
l131(t) ==
    /\ LogStep(t, "l131", [logging[t] EXCEPT !.pc = "exit"])
    /\ UNCHANGED <<log_file, usage_logger>>

\* The with block is left: the lock is released and log_request returns.
l_exit(t) ==
    /\ LogStep(t, "exit", [logging[t] EXCEPT !.pc = "idle", !.made = @ + 1])
    /\ usage_logger' = [usage_logger EXCEPT !._lock = FALSE]
    /\ UNCHANGED log_file

NextLog ==
    \/ \E t \in LogThreads : l66(t)
    \/ \E t \in LogThreads : l111(t)
    \/ \E t \in LogThreads : l114(t)
    \/ \E t \in LogThreads : l117(t)
    \/ \E t \in LogThreads : l120(t)
    \/ \E t \in LogThreads : l121(t)
    \/ \E t \in LogThreads : l125(t)
    \/ \E t \in LogThreads : l126(t)
    \/ \E t \in LogThreads : l131(t)
    \/ \E t \in LogThreads : l_exit(t)

SpecLog == InitLog /\ [][NextLog]_vars

\* ------------------------------ SpecIngest: one ingest_source_to_pinecone
\* scripts/ingest.py (iNNN: line NNN).  The call is made for the source
\* "test.pdf" with 0 to MaxChunks chunks, on an index that stores any of the
\* vectors an earlier ingestion may have left.  A call of the index that
\* raises ends the function, except in get_existing_ids_for_source.
SourceName == "test.pdf"
Sources == {"test.pdf", "other.pdf"}
StoredChoices ==
    {Vector(chunk_id(SourceName, i), SourceName) : i \in 0 .. MaxChunks}
        \cup {Vector(chunk_id("other.pdf", 0), "other.pdf"),
              Vector(<<"legacy-id">>, SourceName)}

\* The chunks: n documents whose metadata name the source src.
ChunksOf(n, src) == [j \in 1 .. n |-> [page_content |-> <<"chunk ", j>>, metadata |-> [source |-> src]]]

InitIngest ==
    /\ InitLimiter(StartTime)
    /\ InitIdleChat
    /\ InitIdleLogger
    /\ index \in SUBSET StoredChoices
    /\ \E n \in 0 .. MaxChunks, src \in Sources :
           ingest = [NoIngest EXCEPT !.pc = "i119", !.chunks = ChunksOf(n, src),
                                     !.source_name = SourceName]

IngestStep(label, f) ==
    /\ ingest.pc = label
    /\ ingest' = f
    /\ UNCHANGED <<now, api_enabled, rate_limiter, histVars, threadVars, chatVars, logVars>>

\* if not chunks: return 0, 0
i119 ==
    /\ IF ingest.chunks = <<>>
       THEN IngestStep("i119", [ingest EXCEPT !.pc = "returned", !.ret = <<0, 0>>])
       ELSE IngestStep("i119", [ingest EXCEPT !.pc = "i127"])
    /\ UNCHANGED index

\* for i, chunk in enumerate(chunks): the ids and the vectors are built.
i127 ==
    LET chunks == ingest.chunks
    IN  /\ IngestStep("i127",
               [ingest EXCEPT !.pc = "i145", !.i = 0,
                    !.chunk_ids = [j \in 1 .. Len(chunks) |-> chunk_id(ingest.source_name, j - 1)],
                    !.vectors_to_upsert =
                        [j \in 1 .. Len(chunks) |->
                            Vector(chunk_id(ingest.source_name, j - 1), chunks[j].metadata.source)]])
        /\ UNCHANGED index

\* for i in range(0, len(vectors_to_upsert), batch_size): index.upsert(vectors=batch)
i145 ==
    LET n == Len(ingest.vectors_to_upsert)
        batch == SubSeq(ingest.vectors_to_upsert, ingest.i + 1, Min(ingest.i + batch_size, n))
    IN  IF ingest.i < n
        THEN /\ IngestStep("i145", [ingest EXCEPT !.i = @ + batch_size,
                                                  !.upserts = Append(@, batch)])
             /\ index' = upsert(index, batch)
        ELSE /\ IngestStep("i145", [ingest EXCEPT !.pc = "i152"])
             /\ UNCHANGED index

\* index.upsert raises.
i145_raises ==
    /\ ingest.i < Len(ingest.vectors_to_upsert)
    /\ IngestStep("i145", [ingest EXCEPT !.pc = "raised"])
    /\ UNCHANGED index

\* existing_ids = get_existing_ids_for_source(index, source_name), the query
\* having returned matches; new_ids and orphan_ids.
i152(matches) ==
    /\ matches \in query_matches(index, ingest.source_name)
    /\ IngestStep("i152",
           [ingest EXCEPT !.pc = "i156", !.stored = index, !.existing_ids = matches,
                !.orphan_ids = orphans(matches, {ingest.chunk_ids[j] : j \in 1 .. Len(ingest.chunk_ids)})])
    /\ UNCHANGED index

\* The same, the query having raised: get_existing_ids_for_source returns set().
i152_query_raises ==
    /\ IngestStep("i152",
           [ingest EXCEPT !.pc = "i156", !.stored = index, !.existing_ids = {},
                !.query_raised = TRUE,
                !.orphan_ids = orphans({}, {ingest.chunk_ids[j] : j \in 1 .. Len(ingest.chunk_ids)})])
    /\ UNCHANGED index

\* if orphan_ids: index.delete(ids=list(orphan_ids)) ... else: deleted_count = 0
i156 ==
    IF ingest.orphan_ids # {}
    THEN /\ IngestStep("i156", [ingest EXCEPT !.pc = "i164",
                                     !.deleted_count = Cardinality(ingest.orphan_ids),
                                     !.deletes = Append(@, ingest.orphan_ids)])
         /\ index' = delete(index, ingest.orphan_ids)
    ELSE /\ IngestStep("i156", [ingest EXCEPT !.pc = "i164", !.deleted_count = 0])
         /\ UNCHANGED index

\* index.delete raises.
i156_raises ==
    /\ ingest.orphan_ids # {}
    /\ IngestStep("i156", [ingest EXCEPT !.pc = "raised"])
    /\ UNCHANGED index

\* return len(chunk_ids), deleted_count
i164 ==
    /\ IngestStep("i164", [ingest EXCEPT !.pc = "returned",
                                !.ret = <<Len(ingest.chunk_ids), ingest.deleted_count>>])
    /\ UNCHANGED index

NextIngest ==
    \/ i119
    \/ i127
    \/ i145
    \/ i145_raises
    \/ \E matches \in SUBSET {v.id : v \in StoredChoices} : i152(matches)
    \/ i152_query_raises
    \/ i156
    \/ i156_raises
    \/ i164

SpecIngest == InitIngest /\ [][NextIngest]_vars

\* ================================================================ claims
IsRateLimitError(exc) ==
    exc.status_code = 429 /\ exc.detail.error = "Rate limit exceeded"
IsCostLimitError(exc) ==
    exc.status_code = 429 /\ exc.detail.error = "Daily cost limit exceeded"
IsServiceDisabled(exc) ==
    exc.status_code = 503 /\ exc.detail = emergency_message

CostBelowCeiling == rate_limiter.daily_estimated_cost < max_daily_cost

\* C1: on a fresh controller, with the kill switch on and the daily cost below
\* its ceiling, while the first hourly window has not elapsed, the i-th call of
\* check_rate_limit succeeds and reports requests_this_hour = i for every
\* i up to the ceiling, and a call made after that fails with the rate-limit
\* error.  (The daily cost only grows inside the window, so it was below the
\* ceiling at every earlier call as well.)
C1_FirstCallsCountUpThenFail ==
    (last.op = "check_rate_limit" /\ api_enabled /\ InFirstWindow /\ CostBelowCeiling)
        => IF nChecks <= rate_limit_per_hour
           THEN ~Raised(last.exc) /\ last.ret.requests_this_hour = nChecks
           ELSE IsRateLimitError(last.exc)

C1_Witness ==
    /\ last.op = "check_rate_limit" /\ api_enabled /\ InFirstWindow /\ CostBelowCeiling
    /\ nChecks = rate_limit_per_hour + 1
    /\ IsRateLimitError(last.exc)
    /\ Len(rate_limiter.hourly_requests) = rate_limit_per_hour

AllDone == \A t \in Threads : pc[t] = "done"
Admitted ==
    {t \in Threads : /\ pc[t] = "done" /\ frame[t].op = "check_rate_limit"
                     /\ ~Raised(result[t].exc)}

\* C2: when one more caller than the ceiling admits runs check_rate_limit
\* concurrently on a fresh controller, inside one hourly window and with the
\* kill switch on, then whatever the interleaving exactly `ceiling` calls
\* succeed, the successful calls report the values 1..ceiling, one each, and
\* every other call fails with the rate-limit error.  On the way there no two
\* admitted calls report the same count and the stored count never exceeds
\* the ceiling.
C2_ConcurrentChecksAdmitExactlyCeiling ==
    (api_enabled /\ InFirstWindow)
        => /\ Len(rate_limiter.hourly_requests) <= rate_limit_per_hour
           /\ \A t, u \in Admitted :
                  result[t].ret.requests_this_hour = result[u].ret.requests_this_hour
                      => t = u
           /\ (AllDone /\ \A t \in Threads : frame[t].op = "check_rate_limit")
                  => /\ Cardinality(Admitted) = rate_limit_per_hour
                     /\ {result[t].ret.requests_this_hour : t \in Admitted}
                            = 1 .. rate_limit_per_hour
                     /\ \A t \in Threads \ Admitted : IsRateLimitError(result[t].exc)
                     /\ Len(rate_limiter.hourly_requests) = rate_limit_per_hour

C2_Witness ==
    /\ AllDone /\ api_enabled /\ InFirstWindow
    /\ \A t \in Threads : frame[t].op = "check_rate_limit"
    /\ Cardinality(Admitted) = rate_limit_per_hour
    /\ \E t \in Threads : IsRateLimitError(result[t].exc)

InBody(t) == pc[t] \notin {"idle", "done"}
Recorders == {t \in Threads : pc[t] = "done" /\ frame[t].op = "record_usage"}

RECURSIVE SumOver(_, _)
SumOver(S, f) ==
    IF S = {} THEN 0
    ELSE LET x == CHOOSE y \in S : TRUE IN f[x] + SumOver(S \ {x}, f)

ThreadTokens == [t \in Threads |-> frame[t].input_tokens + frame[t].output_tokens]
ThreadCost ==
    [t \in Threads |-> 3 * frame[t].input_tokens + 15 * frame[t].output_tokens]

\* C3: the bodies of check_rate_limit, record_usage and get_stats exclude one
\* another: at most one thread is inside a body, and only while the lock is
\* held; so when no call is in progress, within one day, daily_tokens_used is
\* the sum of the tokens of all record_usage calls made and the daily cost is
\* the sum of their costs.
C3_MutualExclusionAndNoLostUpdate ==
    /\ \A t, u \in Threads : (InBody(t) /\ InBody(u)) => t = u
    /\ \A t \in Threads : InBody(t) => _lock
    /\ ((\A t \in Threads : ~InBody(t)) /\ now < Midnight(StartTime) + Day)
           => /\ rate_limiter.daily_tokens_used = SumOver(Recorders, ThreadTokens)
              /\ rate_limiter.daily_estimated_cost = SumOver(Recorders, ThreadCost)

C3_Witness ==
    /\ AllDone
    /\ Recorders = Threads
    /\ \A t \in Threads : ThreadTokens[t] > 0
    /\ rate_limiter.daily_tokens_used = SumOver(Threads, ThreadTokens)

\* C4: a check_rate_limit made at or past hourly_reset_time when the hourly
\* ceiling has been reached, with the kill switch on and the daily cost below
\* its ceiling, succeeds and reports requests_this_hour = 1; the rollover drops
\* every stored timestamp, so that only the new one is left, and puts the next
\* reset instant one hour after the call.
C4_RolloverAdmitsAfterCeiling ==
    [][(/\ CheckRateLimit
        /\ api_enabled /\ CostBelowCeiling
        /\ Len(rate_limiter.hourly_requests) >= rate_limit_per_hour
        /\ now >= rate_limiter.hourly_reset_time)
           => /\ ~Raised(last'.exc)
              /\ last'.ret.requests_this_hour = 1
              /\ rate_limiter'.hourly_requests = <<now>>
              /\ rate_limiter'.hourly_reset_time = now + Hour]_vars

\* The ceiling's worth of admissions are still younger than one hour when the
\* call after the reset instant is admitted as the first of its window.
C4_Witness ==
    /\ last.op = "check_rate_limit" /\ last.at = now /\ ~Raised(last.exc)
    /\ last.ret.requests_this_hour = 1
    /\ Len(admitted) = rate_limit_per_hour + 1
    /\ rate_limiter.hourly_requests = <<now>>

\* The check is made while the accrued daily cost is at or above the ceiling
\* and the next daily reset has not come.
CheckAtCostCeiling ==
    /\ CheckRateLimit
    /\ rate_limiter.daily_estimated_cost >= max_daily_cost
    /\ now < rate_limiter.daily_reset_time

\* C5 as stated, read with the kill switch on: every check_rate_limit made
\* while the accrued daily cost is at or above the ceiling, before the next
\* daily reset, fails with the cost-limit error.
C5_AlwaysCostLimitError ==
    [][(CheckAtCostCeiling /\ api_enabled) => IsCostLimitError(last'.exc)]_vars

\* C5 amended: such a check_rate_limit always fails and stores no timestamp;
\* it fails with the cost-limit error when the kill switch is on and the hourly
\* count, after rollover and pruning, is below the hourly ceiling, whatever
\* that headroom is; with the hourly ceiling reached it fails with the
\* rate-limit error, and with the kill switch off with the service-disabled
\* error.
C5_FailsAtCostCeiling ==
    [][CheckAtCostCeiling
           => LET count == Len(rate_limiter'.hourly_requests)
              IN  /\ Raised(last'.exc)
                  /\ count <= Len(rate_limiter.hourly_requests)
                  /\ ~api_enabled => IsServiceDisabled(last'.exc)
                  /\ (api_enabled /\ count >= rate_limit_per_hour)
                         => IsRateLimitError(last'.exc)
                  /\ (api_enabled /\ count < rate_limit_per_hour)
                         => IsCostLimitError(last'.exc)]_vars

\* The cost-limit error with one hourly slot left.
C5_Witness ==
    /\ last.op = "check_rate_limit" /\ last.at = now
    /\ IsCostLimitError(last.exc)
    /\ rate_limiter.daily_estimated_cost >= max_daily_cost
    /\ Len(rate_limiter.hourly_requests) = rate_limit_per_hour - 1

\* C6: with the kill switch off check_rate_limit fails with the
\* service-disabled error, HTTP 503 carrying the configured emergency message,
\* and leaves the controller as it was: timestamps, both reset instants and
\* the daily totals, also when a reset instant has passed.
C6_DisabledFailsAndChangesNothing ==
    [][(CheckRateLimit /\ ~api_enabled)
           => /\ last'.exc = HTTPException(503, emergency_message)
              /\ rate_limiter' = rate_limiter]_vars

\* Rejected while both reset instants have passed and usage is on record.
C6_Witness ==
    /\ ~api_enabled
    /\ last.op = "check_rate_limit" /\ last.at = now
    /\ IsServiceDisabled(last.exc)
    /\ now >= rate_limiter.hourly_reset_time
    /\ now >= rate_limiter.daily_reset_time
    /\ rate_limiter.daily_tokens_used > 0

\* C7: record_usage never raises: in every state of the controller, kill
\* switch off, hourly ceiling reached and daily cost at or above its ceiling
\* included, and for every offered pair of token counts, it returns and has
\* added the tokens and the cost to the totals of the current day.
C7_RecordUsageNeverRejects ==
    /\ last.op = "record_usage" => ~Raised(last.exc)
    /\ \A u \in UsageChoices :
           LET before == _check_daily_reset(rate_limiter, now)
               r == record_usage(rate_limiter, now, u[1], u[2])
           IN  /\ ~Raised(r.exc)
               /\ r.self.daily_tokens_used = before.daily_tokens_used + u[1] + u[2]
               /\ r.self.daily_estimated_cost
                      = before.daily_estimated_cost + 3 * u[1] + 15 * u[2]

\* Usage recorded with the hourly ceiling reached and the daily cost already
\* at its ceiling before the call.
C7_Witness ==
    /\ last.op = "record_usage" /\ ~Raised(last.exc)
    /\ last.ret.tokens_used > 0
    /\ last.ret.daily_total_cost - last.ret.estimated_cost >= max_daily_cost
    /\ Len(rate_limiter.hourly_requests) = rate_limit_per_hour

CostGrid == {0, 1, 2, 10, 999, 1000, 1000000}

\* C8: record_usage(i, o) returns estimated_cost = 3 * i + 15 * o
\* micro-dollars, that is i / 1,000,000 * 3 + o / 1,000,000 * 15 dollars;
\* record_usage(1_000_000, 1_000_000) costs 18.00 dollars.
C8_CostFormula ==
    /\ last.op = "record_usage"
           => /\ last.ret.estimated_cost = 3 * last.args[1] + 15 * last.args[2]
              /\ last.args = <<1000000, 1000000>> => last.ret.estimated_cost = 18000000
    /\ \A i, o \in CostGrid :
           record_usage(rate_limiter, now, i, o).ret.estimated_cost = 3 * i + 15 * o

C8_Witness ==
    /\ last.op = "record_usage"
    /\ last.args = <<1000000, 1000000>>
    /\ last.ret.estimated_cost = 18000000

\* The sum of f over the members of bag B, each counted as often as it occurs.
BagSum(B, f) == SumOver(BagToSet(B), [e \in BagToSet(B) |-> CopiesIn(e, B) * f[e]])

UsageTokens == [u \in UsageChoices |-> u[1] + u[2]]
UsageCost == [u \in UsageChoices |-> 3 * u[1] + 15 * u[2]]
\* The record_usage calls made on the clock's current day.
RecordedToday == IF recordedDay = Today THEN recorded ELSE EmptyBag

\* C9: whenever no daily boundary is waiting to be rolled over,
\* daily_tokens_used is the sum of input + output tokens of the record_usage
\* calls made since the last midnight and the daily cost is the sum of their
\* costs; each call returns tokens_used = input + output of that call and, as
\* daily totals, the totals right after its own addition.
C9_DailyTotalsAreSums ==
    /\ now < rate_limiter.daily_reset_time
           => /\ rate_limiter.daily_tokens_used = BagSum(RecordedToday, UsageTokens)
              /\ rate_limiter.daily_estimated_cost = BagSum(RecordedToday, UsageCost)
    /\ last.op = "record_usage"
           => /\ last.ret.tokens_used = last.args[1] + last.args[2]
              /\ last.ret.daily_total_tokens = rate_limiter.daily_tokens_used
              /\ last.ret.daily_total_cost = rate_limiter.daily_estimated_cost
              /\ last.ret.daily_total_tokens = BagSum(recorded, UsageTokens)
              /\ last.ret.daily_total_cost = BagSum(recorded, UsageCost)

\* A second call of the day, both with tokens.
C9_Witness ==
    /\ last.op = "record_usage"
    /\ BagCardinality(recorded) >= 2
    /\ last.ret.tokens_used > 0
    /\ last.ret.daily_total_tokens > last.ret.tokens_used
    /\ now < rate_limiter.daily_reset_time

\* C10: get_stats on a fresh controller, before the first hourly reset
\* instant, reports requests_used = N and requests_remaining = ceiling - N,
\* N being the number of check_rate_limit calls admitted so far, however many
\* record_usage calls were made in between.
C10_StatsCountAdmissions ==
    (last.op = "get_stats" /\ InFirstWindow)
        => /\ last.ret.hourly_stats.requests_used = Len(admitted)
           /\ last.ret.hourly_stats.requests_remaining
                  = rate_limit_per_hour - Len(admitted)

C10_Witness ==
    /\ last.op = "get_stats" /\ last.at = now /\ InFirstWindow
    /\ Len(admitted) >= 1 /\ Len(admitted) < rate_limit_per_hour
    /\ BagCardinality(recorded) >= 1
    /\ last.ret.hourly_stats.requests_used = Len(admitted)

\* C11: daily_tokens_used and the daily cost are never negative, and as long
\* as daily_reset_time stays where it is (no daily reset in between) neither
\* of them decreases, whichever operation runs; record_usage is given
\* non-negative token counts.
C11_DailyTotalsNeverDecrease ==
    [][/\ rate_limiter.daily_tokens_used >= 0
       /\ rate_limiter.daily_estimated_cost >= 0
       /\ rate_limiter'.daily_tokens_used >= 0
       /\ rate_limiter'.daily_estimated_cost >= 0
       /\ rate_limiter'.daily_reset_time = rate_limiter.daily_reset_time
              => /\ rate_limiter'.daily_tokens_used >= rate_limiter.daily_tokens_used
                 /\ rate_limiter'.daily_estimated_cost
                        >= rate_limiter.daily_estimated_cost]_vars

\* Usage on record while the hourly window has rolled over since construction.
C11_Witness ==
    /\ rate_limiter.daily_reset_time = Midnight(StartTime) + Day
    /\ rate_limiter.hourly_reset_time > StartTime + Hour
    /\ rate_limiter.daily_tokens_used > 0
    /\ BagCardinality(recorded) >= 2

\* The totals a daily rollover leaves behind: nothing, or what the
\* record_usage that made the rollover has added.
OwnUsage == IF last'.op = "record_usage" THEN last'.args ELSE <<0, 0>>

\* C12: no reset happens while the clock only ticks.  An operation that looks
\* at the daily window (record_usage, get_stats, and check_rate_limit with the
\* kill switch on) and runs at or after daily_reset_time zeroes tokens and cost
\* before it does anything else and moves daily_reset_time to the next
\* midnight, which lies after the current instant; one that runs before
\* daily_reset_time resets nothing.  So every boundary crossed is rolled over
\* once, by the first such operation after it.
C12_DailyResetLazyAndOnce ==
    [][/\ now' # now => rate_limiter' = rate_limiter
       /\ (now' = now /\ ~(CheckRateLimit /\ ~api_enabled))
              => IF now >= rate_limiter.daily_reset_time
                 THEN /\ rate_limiter'.daily_reset_time = Midnight(now) + Day
                      /\ rate_limiter'.daily_reset_time > now
                      /\ rate_limiter'.daily_tokens_used = OwnUsage[1] + OwnUsage[2]
                      /\ rate_limiter'.daily_estimated_cost
                             = 3 * OwnUsage[1] + 15 * OwnUsage[2]
                 ELSE /\ rate_limiter'.daily_reset_time = rate_limiter.daily_reset_time
                      /\ rate_limiter'.daily_tokens_used >= rate_limiter.daily_tokens_used
                      /\ rate_limiter'.daily_estimated_cost
                             >= rate_limiter.daily_estimated_cost]_vars

\* After midnight, with usage of the day before on record, a check_rate_limit
\* has rolled the day over and a later operation finds nothing left to reset.
C12_Witness ==
    /\ now >= Midnight(StartTime) + Day
    /\ recordedDay < Today /\ BagCardinality(recorded) >= 1
    /\ api_enabled /\ Len(admitted) >= 1
    /\ last.op = "get_stats" /\ last.at = now
    /\ rate_limiter.daily_reset_time = Midnight(now) + Day
    /\ rate_limiter.daily_tokens_used = 0

\* C13: get_stats called at or after hourly_reset_time reports
\* requests_used = 0, and called at or after daily_reset_time reports
\* tokens_used = 0 and estimated_cost = 0, whatever was stored before.
C13_StatsNeverStale ==
    [][GetStats
           => /\ now >= rate_limiter.hourly_reset_time
                     => last'.ret.hourly_stats.requests_used = 0
              /\ now >= rate_limiter.daily_reset_time
                     => /\ last'.ret.daily_stats.tokens_used = 0
                        /\ last'.ret.daily_stats.estimated_cost = 0]_vars

\* get_stats is the first operation after midnight and after the hourly reset
\* instant, with usage of the day before on record.
C13_Witness ==
    /\ last.op = "get_stats" /\ last.at = now
    /\ now >= Midnight(StartTime) + Day
    /\ recordedDay < Today /\ BagSum(recorded, UsageTokens) > 0
    /\ rate_limiter.hourly_reset_time = now + Hour
    /\ admitted = <<>>
    /\ last.ret.hourly_stats.requests_used = 0
    /\ last.ret.daily_stats.tokens_used = 0
    /\ last.ret.daily_stats.estimated_cost = 0

\* ------------------------------------------------------ claims on /chat
\* What a handler's history holds.
Made(h, e) == \E i \in 1 .. Len(calls[h]) : calls[h][i] = e
Times(h, e) == Cardinality({i \in 1 .. Len(calls[h]) : calls[h][i] = e})
Pos(h, e) == IF Made(h, e) THEN CHOOSE i \in 1 .. Len(calls[h]) : calls[h][i] = e /\ \A j \in 1 .. (i - 1) : calls[h][j] # e ELSE 0
\* If e2 has happened, e1 happened before it.
Before(h, e1, e2) == Made(h, e2) => (Made(h, e1) /\ Pos(h, e1) < Pos(h, e2))

Finished(h) == chat[h].pc = "done"
Rejected(h) == Made(h, Exc("check_rate_limit"))
SearchFailed(h) == Made(h, Exc("similarity_search_with_score"))
\* messages.create raised, or returned a response generate_response fails on.
GenerationFailed(h) ==
    \/ Made(h, Exc("messages.create"))
    \/ Made(h, Ret("messages.create")) /\ Made(h, Exc("query_rag"))
ZeroEntry(entry) ==
    /\ ~entry.success
    /\ entry.tokens = [input |-> 0, output |-> 0, total |-> 0]
    /\ entry.estimated_cost_usd = 0

\* C14: when the vector search returns zero matches, query returns the fixed
\* 'no information' answer with no sources, zero input and output tokens and
\* the configured model, and messages.create is not called in that query.
C14_EmptyRetrievalAnswersWithoutGeneration ==
    \A h \in Handlers :
        (Made(h, Ret("similarity_search_with_score")) /\ chat[h].results = <<>>)
            => /\ Made(h, Ret("query_rag"))
               /\ chat[h].state = "EMPTY_RESULT"
               /\ chat[h].rag_response.answer = no_information
               /\ chat[h].rag_response.sources = <<>>
               /\ chat[h].rag_response.input_tokens = 0
               /\ chat[h].rag_response.output_tokens = 0
               /\ chat[h].rag_response.model = claude_model
               /\ ~Made(h, Call("messages.create"))

C14_Witness ==
    \E h \in Handlers :
        /\ Finished(h) /\ chat[h].response.status_code = 200
        /\ Made(h, Ret("similarity_search_with_score")) /\ chat[h].results = <<>>
        /\ chat[h].response.detail[1].answer = no_information
        /\ chat[h].response.detail[1].tokens_used = 0

\* Handler h takes a step of a request whose admission check has failed: the
\* failing check itself, or a step after it.
RejectedStep(h) ==
    /\ calls'[h] # calls[h] \/ chat'[h] # chat[h]
    /\ \E i \in 1 .. Len(calls'[h]) : calls'[h][i] = Exc("check_rate_limit")

NoProviderCalled(h) ==
    /\ ~Made(h, Call("query_rag"))
    /\ ~Made(h, Call("similarity_search_with_score"))
    /\ ~Made(h, Call("messages.create"))
    /\ ~Made(h, Call("record_usage"))

\* C15 as stated: a chat request whose admission check fails calls neither
\* provider nor record_usage, and no step of it changes the daily tokens or
\* the daily cost.
C15_RejectedChangesNoTotals ==
    [][\A h \in Handlers :
           RejectedStep(h)
               => /\ NoProviderCalled(h)'
                  /\ rate_limiter'.daily_tokens_used = rate_limiter.daily_tokens_used
                  /\ rate_limiter'.daily_estimated_cost
                         = rate_limiter.daily_estimated_cost]_vars

\* C15 amended: such a request calls neither provider nor record_usage and
\* adds nothing to the daily totals.  They are unchanged when the kill switch
\* is off or the check runs before daily_reset_time; a check at or after
\* daily_reset_time (it then fails on the hourly ceiling) zeroes them in its
\* daily rollover before it fails.
C15_RejectedAddsNothing ==
    [][\A h \in Handlers :
           RejectedStep(h)
               => LET rolled == /\ api_enabled /\ chat[h].pc = "m91"
                                /\ now >= rate_limiter.daily_reset_time
                  IN  /\ NoProviderCalled(h)'
                      /\ rate_limiter'.daily_tokens_used
                             = IF rolled THEN 0 ELSE rate_limiter.daily_tokens_used
                      /\ rate_limiter'.daily_estimated_cost
                             = IF rolled THEN 0 ELSE rate_limiter.daily_estimated_cost
                      /\ rolled => IsRateLimitError(chat'[h].exc)]_vars

\* A request rejected on the hourly ceiling has answered, while the daily cost
\* recorded by the admitted requests stands.
C15_Witness ==
    \E h \in Handlers :
        /\ Finished(h) /\ Rejected(h)
        /\ chat[h].response.status_code = 429
        /\ IsRateLimitError(chat[h].exc)
        /\ rate_limiter.daily_estimated_cost > 0
        /\ NoProviderCalled(h)

\* C16: every request that reaches the handler makes one call of log_request,
\* never two, and has made it when it answers: a request rejected by the
\* admission check and one whose query fails log success = false with zero
\* tokens and zero cost, a request that succeeds logs success = true.
C16_OneLogEntryPerRequest ==
    \A h \in Handlers :
        /\ Len(logged[h]) <= 1
        /\ Times(h, Call("log_request")) = Len(logged[h])
        /\ Finished(h)
               => /\ Len(logged[h]) = 1
                  /\ logged[h][1].endpoint = "/chat"
                  /\ (Rejected(h) \/ Made(h, Exc("query_rag")))
                         => ZeroEntry(logged[h][1]) /\ chat[h].response.status_code # 200
                  /\ (~Rejected(h) /\ ~Made(h, Exc("query_rag")))
                         => /\ logged[h][1].success
                            /\ chat[h].response.status_code = 200

\* Every request served has answered with one entry each handler at rest, one
\* of them a failure of the query.
C16_Witness ==
    /\ served = rate_limit_per_hour + 1
    /\ \A h \in Handlers : Finished(h) /\ Len(logged[h]) = 1
    /\ \E h \in Handlers : Made(h, Exc("query_rag")) /\ ZeroEntry(logged[h][1])

\* C17: within one request the admission check has returned before the search
\* is called, the search has returned before messages.create is called, both
\* have returned before record_usage is called, and record_usage has returned
\* before the success entry is logged; after a failed admission check nothing
\* but the log runs, after a failed search no generation, and after a failed
\* query no record_usage and no success entry.
C17_StagesInOrder ==
    \A h \in Handlers :
        /\ Before(h, Ret("check_rate_limit"), Call("query_rag"))
        /\ Before(h, Call("query_rag"), Call("similarity_search_with_score"))
        /\ Before(h, Ret("similarity_search_with_score"), Call("messages.create"))
        /\ Before(h, Ret("similarity_search_with_score"), Call("record_usage"))
        /\ Made(h, Call("messages.create"))
               => Before(h, Ret("messages.create"), Call("record_usage"))
        /\ Before(h, Ret("query_rag"), Call("record_usage"))
        /\ (logged[h] # <<>> /\ logged[h][1].success)
               => /\ Made(h, Ret("record_usage"))
                  /\ Pos(h, Ret("record_usage")) < Pos(h, Call("log_request"))
        /\ Rejected(h) => NoProviderCalled(h)
        /\ SearchFailed(h) => ~Made(h, Call("messages.create"))
        /\ Made(h, Exc("query_rag"))
               => /\ ~Made(h, Call("record_usage"))
                  /\ \A i \in 1 .. Len(logged[h]) : ~logged[h][i].success

\* A request has gone through all the stages and answered.
C17_Witness ==
    \E h \in Handlers :
        /\ Finished(h) /\ chat[h].response.status_code = 200
        /\ calls[h] = <<Call("check_rate_limit"), Ret("check_rate_limit"),
                        Call("query_rag"), Call("similarity_search_with_score"),
                        Ret("similarity_search_with_score"), Call("messages.create"),
                        Ret("messages.create"), Ret("query_rag"),
                        Call("record_usage"), Ret("record_usage"),
                        Call("log_request"), Ret("log_request")>>

\* C18: when the generation provider fails (messages.create raises, or answers
\* without content), generate_response and query raise and return no answer,
\* messages.create and the search have been called once each and are not
\* called again, record_usage is not called, and the handler logs one entry
\* with success = false, zero tokens and zero cost and answers with HTTP 500.
C18_GenerationFailurePropagates ==
    \A h \in Handlers :
        GenerationFailed(h)
            => /\ Made(h, Exc("query_rag")) /\ ~Made(h, Ret("query_rag"))
               /\ chat[h].state = "FAILED"
               /\ Times(h, Call("messages.create")) = 1
               /\ Times(h, Call("similarity_search_with_score")) = 1
               /\ ~Made(h, Call("record_usage"))
               /\ chat[h].pc \in {"m139", "m148", "done"}
               /\ Len(logged[h]) = (IF chat[h].pc = "m139" THEN 0 ELSE 1)
               /\ \A i \in 1 .. Len(logged[h]) : ZeroEntry(logged[h][i])
               /\ Finished(h) => chat[h].response.status_code = 500

\* messages.create raised and the request has been answered.
C18_Witness ==
    \E h \in Handlers :
        /\ Finished(h) /\ Made(h, Exc("messages.create"))
        /\ chat[h].response.status_code = 500
        /\ Len(logged[h]) = 1 /\ ZeroEntry(logged[h][1])
        /\ chat[h].chunks # <<>>

\* C19: a failure of the vector search makes query raise: it does not return,
\* so it gives no 'no information' answer, and messages.create is not called;
\* a query that ends with the 'no information' answer has had its search
\* return, with zero matches.
C19_SearchFailureIsNotEmptyResult ==
    \A h \in Handlers :
        /\ SearchFailed(h)
               => /\ Made(h, Exc("query_rag")) /\ ~Made(h, Ret("query_rag"))
                  /\ chat[h].state = "FAILED"
                  /\ ~Made(h, Call("messages.create"))
                  /\ Finished(h) => chat[h].response.status_code = 500
        /\ chat[h].state = "EMPTY_RESULT"
               => /\ Made(h, Ret("similarity_search_with_score"))
                  /\ ~SearchFailed(h)
                  /\ chat[h].results = <<>>
        /\ (Made(h, Ret("query_rag")) /\ chat[h].rag_response.answer = no_information)
               => chat[h].state = "EMPTY_RESULT"

\* The search has failed and the request has been answered with HTTP 500.
C19_Witness ==
    \E h \in Handlers :
        /\ Finished(h) /\ SearchFailed(h)
        /\ chat[h].response.status_code = 500
        /\ chat[h].response.detail[2] = "search failed"
        /\ ~Made(h, Ret("similarity_search_with_score"))

\* The per-query states and the transitions the state machine names.
Terminal == {"EMPTY_RESULT", "DONE", "FAILED"}
NamedEdges == {<<"START", "RETRIEVING">>, <<"RETRIEVING", "EMPTY_RESULT">>, <<"RETRIEVING", "GENERATING">>, <<"GENERATING", "DONE">>, <<"GENERATING", "FAILED">>}

\* The state of h's query moves along edges only; a query starts in START and
\* the state is forgotten when the handler takes its next request.
Follows(h, edges) ==
    chat'[h].state # chat[h].state
        => \/ <<chat[h].state, chat'[h].state>> \in edges
           \/ chat[h].state = "" /\ chat'[h].state = "START"
           \/ chat[h].state \in Terminal /\ chat'[h].state = "" /\ chat'[h].pc = "m91"

\* One attempt per provider call, generation only after a non-empty retrieval,
\* and a query has ended exactly when it is in a terminal state.
OneAttemptEach(h) ==
    /\ Times(h, Call("similarity_search_with_score"))
           = (IF chat[h].state \in {"", "START"} THEN 0 ELSE 1)
    /\ Times(h, Call("messages.create"))
           = (IF \/ chat[h].state \in {"GENERATING", "DONE"}
                 \/ chat[h].state = "FAILED" /\ ~SearchFailed(h)
              THEN 1 ELSE 0)
    /\ Made(h, Call("messages.create"))
           => /\ Before(h, Ret("similarity_search_with_score"), Call("messages.create"))
              /\ chat[h].results # <<>>
    /\ chat[h].state \in Terminal
           <=> (Made(h, Ret("query_rag")) \/ Made(h, Exc("query_rag")))
    /\ Times(h, Ret("query_rag")) + Times(h, Exc("query_rag")) <= 1

\* C20 as stated: each query follows START -> RETRIEVING -> {EMPTY_RESULT |
\* GENERATING -> DONE | GENERATING -> FAILED}, calls the search once and
\* messages.create at most once, after a non-empty retrieval only, and ends in
\* one terminal state.
C20_QueryStateMachine ==
    [][\A h \in Handlers : Follows(h, NamedEdges) /\ OneAttemptEach(h)']_vars

\* C20 amended: the state machine has one more transition,
\* RETRIEVING -> FAILED, taken when the vector search fails; with it every
\* query follows the state machine, with one attempt per provider call.
C20_QueryStateMachineWithSearchFailure ==
    [][\A h \in Handlers :
           /\ Follows(h, NamedEdges \cup {<<"RETRIEVING", "FAILED">>})
           /\ OneAttemptEach(h)']_vars

\* A query has gone from RETRIEVING to FAILED: its one search has failed and
\* the handler is about to log the failure.
C20_Witness ==
    \E h \in Handlers :
        /\ chat[h].pc = "m139" /\ chat[h].state = "FAILED"
        /\ SearchFailed(h)
        /\ Times(h, Call("similarity_search_with_score")) = 1
        /\ Times(h, Call("messages.create")) = 0
        /\ calls[h][Len(calls[h])] = Exc("query_rag")

\* ---------------------------------------------------------------- C21
SearchReturned(h) == Made(h, Ret("similarity_search_with_score"))

\* C21: when the vector search returns N scored passages, retrieve_context
\* returns N chunks in the same order, the i-th with the i-th passage's text,
\* its score and its metadata source, or "unknown" when the metadata has no
\* source; an empty result gives an empty list and no error.
C21_RetrieveContextKeepsPassages ==
    \A h \in Handlers :
        SearchReturned(h) =>
            LET results == chat[h].results
                chunks == chat[h].chunks
            IN  /\ Len(chunks) = Len(results)
                /\ \A i \in 1 .. Len(results) :
                       /\ chunks[i].content = results[i][1].page_content
                       /\ chunks[i].score = results[i][2]
                       /\ chunks[i].source =
                              IF "source" \in DOMAIN results[i][1].metadata
                              THEN results[i][1].metadata.source
                              ELSE "unknown"
                /\ results = <<>> => chunks = <<>> /\ ~Raised(chat[h].exc)

\* Two passages came back, the first without a source, the second with one.
C21_Witness ==
    \E h \in Handlers :
        /\ SearchReturned(h)
        /\ Len(chat[h].results) = 2
        /\ "source" \notin DOMAIN chat[h].results[1][1].metadata
        /\ chat[h].chunks[1].source = "unknown"
        /\ chat[h].chunks[2].source = "a.pdf"

\* ---------------------------------------------------------------- C22
\* The places of a prompt where a source label begins.
LabelStarts(prompt) == {p \in 1 .. Len(prompt) : prompt[p] = "[Source: "}

GenerationCalled(h) == Made(h, Call("messages.create"))

\* C22: the user prompt sent by generate_response holds one block per chunk,
\* '[Source: <source>]' followed by the chunk's content, the blocks in the
\* order of the chunks and none dropped or repeated, and after them the
\* literal query text.
C22_PromptHoldsEveryChunkInOrder ==
    \A h \in Handlers :
        GenerationCalled(h) =>
            LET prompt == chat[h].user_prompt
                chunks == chat[h].chunks
                starts == LabelStarts(prompt)
                Rank(p) == Cardinality({s \in starts : s <= p})
            IN  /\ chunks # <<>>
                /\ Cardinality(starts) = Len(chunks)
                /\ \A p \in starts :
                       /\ p + 3 <= Len(prompt)
                       /\ prompt[p + 1] = chunks[Rank(p)].source
                       /\ prompt[p + 2] = "]\n"
                       /\ prompt[p + 3] = chunks[Rank(p)].content
                /\ \E q \in 1 .. Len(prompt) :
                       /\ prompt[q] = chat[h].message
                       /\ \A p \in starts : p + 3 < q

\* A prompt made of two chunks.
C22_Witness ==
    \E h \in Handlers :
        /\ GenerationCalled(h)
        /\ Len(chat[h].chunks) = 2
        /\ Cardinality(LabelStarts(chat[h].user_prompt)) = 2
        /\ chat[h].message = "What is this?"

\* ---------------------------------------------------------------- C23
\* generate_response has returned, and query with it.
Generated(h) == Made(h, Ret("messages.create")) /\ Made(h, Ret("query_rag"))

\* C23: a successful generate_response returns as sources the chunk sequence
\* it was given and as token counts the counts the provider reported, query
\* returns that result as it is, and the counts given to record_usage and to
\* the log are those same counts.
C23_ProviderCountsEverywhere ==
    \A h \in Handlers :
        Generated(h) =>
            LET reported == chat[h].created.usage
                rag_response == chat[h].rag_response
                usage_record == chat[h].usage_record
            IN  /\ rag_response.sources = chat[h].chunks
                /\ rag_response.input_tokens = reported.input_tokens
                /\ rag_response.output_tokens = reported.output_tokens
                /\ Made(h, Ret("record_usage")) =>
                       /\ usage_record.tokens_used =
                              reported.input_tokens + reported.output_tokens
                       /\ usage_record.estimated_cost =
                              InputPrice * reported.input_tokens
                                  + OutputPrice * reported.output_tokens
                /\ \A i \in 1 .. Len(logged[h]) :
                       /\ logged[h][i].tokens.input = reported.input_tokens
                       /\ logged[h][i].tokens.output = reported.output_tokens

\* A request answered from two chunks, with 10 input tokens reported, after
\* its usage was recorded and logged.
C23_Witness ==
    \E h \in Handlers :
        /\ Generated(h)
        /\ chat[h].pc = "done"
        /\ Len(chat[h].rag_response.sources) = 2
        /\ chat[h].created.usage = [input_tokens |-> 10, output_tokens |-> 0]
        /\ Len(logged[h]) = 1
        /\ logged[h][1].tokens = [input |-> 10, output |-> 0, total |-> 10]

\* ---------------------------------------------------------------- C24
SearchCalled(h) == Made(h, Call("similarity_search_with_score"))

\* C24: retrieve_context calls the vector search with the literal query text
\* and with k equal to the given top_k for every top_k that is given, and
\* with k equal to the configured default only when top_k is None.
C24_SearchGetsGivenTopK ==
    \A h \in Handlers :
        SearchCalled(h) =>
            /\ chat[h].query = chat[h].message
            /\ chat[h].top_k # <<>> => chat[h].k = chat[h].top_k[1]
            /\ chat[h].top_k = <<>> => chat[h].k = retrieval_top_k

\* ---------------------------------------------------------------- C25
\* Every thread has made all its calls and every call has returned.
AllLogged ==
    \A t \in LogThreads : logging[t].pc = "idle" /\ logging[t].made = MaxLogCalls

NewEntries == {EntryOf(t, i) : t \in LogThreads, i \in 0 .. MaxLogCalls - 1}

Occurrences(seq, e) == Cardinality({i \in 1 .. Len(seq) : seq[i] = e})

\* C25: no entry is lost under concurrency.  When the file held a JSON array
\* as the logger was built and MaxLoggers threads have each called log_request
\* MaxLogCalls times, then after all calls have returned the file holds the
\* entries it had, followed by exactly MaxLoggers * MaxLogCalls entries: each
\* of the entries logged, whole, once.
C25_NoEntryLostUnderConcurrency ==
    (AllLogged /\ log_start.kind = "array") =>
        /\ log_file.kind = "array"
        /\ Len(log_file.logs) = Len(log_start.logs) + MaxLoggers * MaxLogCalls
        /\ SubSeq(log_file.logs, 1, Len(log_start.logs)) = log_start.logs
        /\ \A e \in NewEntries : Occurrences(log_file.logs, e) = 1

\* Both threads are through, their entries interleaved in the file after the
\* one that was there.
C25_Witness ==
    /\ AllLogged
    /\ log_start = ArrayFile(<<OldEntry>>)
    /\ Len(log_file.logs) = 1 + MaxLoggers * MaxLogCalls
    /\ log_file.logs[2] = EntryOf(2, 0)
    /\ log_file.logs[3] = EntryOf(1, 0)

\* ---------------------------------------------------------------- C26
\* Thread t has done its work on the file and still holds the lock.
Written(t) == logging[t].pc = "exit"

\* C26: when the file does not hold valid JSON as log_request reads it, the
\* call returns and has rewritten the file as a JSON array of exactly the new
\* entry; the calls after it append to what they read.
C26_CorruptFileIsRewritten ==
    \A t \in LogThreads :
        Written(t) =>
            /\ logging[t].found \in {"invalid", "undecodable"} =>
                   log_file = ArrayFile(<<logging[t].log_entry>>)
            /\ logging[t].found = "array" =>
                   /\ log_file = ArrayFile(logging[t].logs)
                   /\ logging[t].logs[Len(logging[t].logs)] = logging[t].log_entry

\* ---------------------------------------------------------------- C27
IngestReturned == ingest.pc = "returned"

\* The ids '<source>-chunk-0' .. '<source>-chunk-(n-1)' of the n chunks given.
NewIds == {chunk_id(ingest.source_name, j) : j \in 0 .. Len(ingest.chunks) - 1}

\* The ids the index stored for the source when it was asked for them.
StoredIds == {v.id : v \in {w \in ingest.stored : w.source = ingest.source_name}}

\* The ids given to index.upsert and to index.delete.
UpsertedIds ==
    UNION {{ingest.upserts[b][j].id : j \in DOMAIN ingest.upserts[b]} : b \in DOMAIN ingest.upserts}
DeletedIds == UNION {ingest.deletes[d] : d \in DOMAIN ingest.deletes}

\* What the claim says of a call that has returned, the ids found for the
\* source being found.
IngestOutcome(found) ==
    IF ingest.chunks = <<>>
    THEN ingest.ret = <<0, 0>> /\ ingest.upserts = <<>> /\ ingest.deletes = <<>>
    ELSE /\ UpsertedIds = NewIds
         /\ DeletedIds = found \ NewIds
         /\ \A d \in DOMAIN ingest.deletes : ingest.deletes[d] # {}
         /\ Len(ingest.deletes) = (IF found \ NewIds = {} THEN 0 ELSE 1)
         /\ ingest.ret = <<Len(ingest.chunks), Cardinality(found \ NewIds)>>

\* C27 as stated: ingest_source_to_pinecone deletes exactly the orphans, the
\* ids stored in the index for the source less the ids just upserted, calls
\* delete only when there are any and returns (n, number deleted); with no
\* chunks it returns (0, 0) and neither upserts nor deletes.
C27_DeletesStoredOrphans ==
    IngestReturned => IngestOutcome(StoredIds)

\* C27 amended: the orphans are taken from what the query for the source
\* returned, which is nothing when the query raised; when it returned, and
\* the source has at most query_top_k vectors, that is all the stored ids.
C27_DeletesFoundOrphans ==
    IngestReturned =>
        /\ IngestOutcome(IF ingest.query_raised THEN {} ELSE ingest.existing_ids)
        /\ (ingest.chunks # <<>> /\ ~ingest.query_raised
                /\ Cardinality(StoredIds) <= query_top_k) =>
               ingest.existing_ids = StoredIds

\* One chunk was upserted where the index held three of the source and one
\* of another: two were deleted, and the other source's vector is still there.
C27_Witness ==
    /\ IngestReturned
    /\ Len(ingest.chunks) = 1
    /\ ~ingest.query_raised
    /\ DeletedIds = {chunk_id(SourceName, 1), chunk_id(SourceName, 2)}
    /\ ingest.ret = <<1, 2>>
    /\ Vector(chunk_id("other.pdf", 0), "other.pdf") \in index
    /\ Vector(chunk_id(SourceName, 0), SourceName) \in index

\* ---------------------------------------------------------------- C28
\* The hourly count a check_rate_limit step tested, after rollover and
\* pruning: what it left, less the timestamp it appended when it succeeded.
CountTested ==
    IF Raised(last'.exc) THEN Len(rate_limiter'.hourly_requests)
    ELSE Len(rate_limiter'.hourly_requests) - 1

\* C28: the rejections of check_rate_limit have a fixed precedence.  With the
\* kill switch off it fails with the service-disabled error whatever the
\* counters are; otherwise with the hourly count at or above its ceiling it
\* fails with the rate-limit error, also when the daily cost is at or above
\* its ceiling; the cost-limit error is raised only with the kill switch on
\* and the hourly count below the ceiling.
C28_RejectionPrecedence ==
    [][CheckRateLimit
           => LET exc == last'.exc
                  at_hourly_ceiling == CountTested >= rate_limit_per_hour
                  at_cost_ceiling == rate_limiter'.daily_estimated_cost >= max_daily_cost
              IN  /\ ~api_enabled => IsServiceDisabled(exc)
                  /\ (api_enabled /\ at_hourly_ceiling) => IsRateLimitError(exc)
                  /\ (api_enabled /\ ~at_hourly_ceiling /\ at_cost_ceiling)
                         => IsCostLimitError(exc)
                  /\ (api_enabled /\ ~at_hourly_ceiling /\ ~at_cost_ceiling)
                         => ~Raised(exc)
                  /\ IsCostLimitError(exc) => (api_enabled /\ ~at_hourly_ceiling)]_vars

\* The rate-limit error with both ceilings reached.
C28_Witness ==
    /\ api_enabled
    /\ last.op = "check_rate_limit" /\ last.at = now
    /\ IsRateLimitError(last.exc)
    /\ Len(rate_limiter.hourly_requests) >= rate_limit_per_hour
    /\ rate_limiter.daily_estimated_cost >= max_daily_cost

\* ---------------------------------------------------------------- C29
\* The admissions of the hour that ends now, and those of them made since the
\* last hard reset of the hourly window (it set hourly_reset_time one hour
\* after itself).
AdmittedThisHour == TrailingHour(admitted)
AdmittedSinceReset ==
    LET Since(t) == t >= rate_limiter.hourly_reset_time - Hour
    IN  SelectSeq(AdmittedThisHour, Since)

\* C29 as stated: the hourly limit is a rolling window; over any interval of
\* one hour at most rate_limit_per_hour calls of check_rate_limit succeed.
C29_RollingWindow ==
    Len(AdmittedThisHour) <= rate_limit_per_hour

\* C29 amended: over any interval of one hour at most rate_limit_per_hour
\* calls succeed since the last hard reset, and at most twice as many in
\* all, as the hard reset drops timestamps younger than one hour.
C29_CeilingPerResetWindow ==
    /\ Len(AdmittedSinceReset) <= rate_limit_per_hour
    /\ Len(AdmittedThisHour) <= 2 * rate_limit_per_hour

\* The ceiling's worth of calls admitted before the hard reset and again
\* after it, all within one hour.
C29_Witness ==
    /\ Len(AdmittedThisHour) = 2 * rate_limit_per_hour
    /\ Len(AdmittedSinceReset) = rate_limit_per_hour
    /\ last.op = "check_rate_limit" /\ IsRateLimitError(last.exc)

\* ---------------------------------------------------------------- C30
\* The stored timestamps after the hourly rollover and the pruning at the
\* current instant.
PrunedNow ==
    LET Young(t) == t > now - Hour
    IN  IF now >= rate_limiter.hourly_reset_time THEN <<>>
        ELSE SelectSeq(rate_limiter.hourly_requests, Young)

\* C30: a check_rate_limit that fails with the rate-limit or the cost-limit
\* error appends no timestamp: the timestamps after it are those left by
\* rollover and pruning, so that rejected calls, however many, never raise the
\* hourly count; a call that succeeds adds exactly one timestamp, its own.
C30_RejectedAppendsNothing ==
    [][CheckRateLimit
           => LET exc == last'.exc
              IN  /\ (IsRateLimitError(exc) \/ IsCostLimitError(exc))
                         => /\ rate_limiter'.hourly_requests = PrunedNow
                            /\ Len(rate_limiter'.hourly_requests)
                                   <= Len(rate_limiter.hourly_requests)
                  /\ ~Raised(exc)
                         => rate_limiter'.hourly_requests = Append(PrunedNow, now)]_vars

\* The second rejection in a row, the count still at the ceiling.
C30_Witness ==
    /\ last.op = "check_rate_limit" /\ last.at = now
    /\ IsRateLimitError(last.exc)
    /\ nChecks = rate_limit_per_hour + 2
    /\ Len(rate_limiter.hourly_requests) = rate_limit_per_hour

\* ---------------------------------------------------------------- C31
\* The latest operation is a check_rate_limit that succeeded.
CheckSucceeded == last.op = "check_rate_limit" /\ ~Raised(last.exc)

\* C31: every successful check_rate_limit returns a snapshot with
\* requests_this_hour + remaining_this_hour = limit_per_hour,
\* 1 <= requests_this_hour <= limit_per_hour and remaining_this_hour >= 0, and
\* with daily_cost the daily cost accrued at that moment (the controller's, the
\* sum of the costs recorded that day), which is strictly below
\* daily_cost_limit.
C31_SuccessSnapshot ==
    CheckSucceeded
        => LET ret == last.ret
           IN  /\ ret.requests_this_hour + ret.remaining_this_hour = ret.limit_per_hour
               /\ ret.limit_per_hour = rate_limit_per_hour
               /\ 1 <= ret.requests_this_hour
               /\ ret.requests_this_hour <= ret.limit_per_hour
               /\ ret.remaining_this_hour >= 0
               /\ ret.requests_this_hour = Len(rate_limiter.hourly_requests)
               /\ ret.daily_cost = rate_limiter.daily_estimated_cost
               /\ last.at = now => ret.daily_cost = BagSum(RecordedToday, UsageCost)
               /\ ret.daily_cost_limit = max_daily_cost
               /\ ret.daily_cost < ret.daily_cost_limit

\* The admission that takes the last slot of the hour, with cost accrued.
C31_Witness ==
    /\ CheckSucceeded /\ last.at = now
    /\ last.ret.requests_this_hour = rate_limit_per_hour
    /\ last.ret.remaining_this_hour = 0
    /\ last.ret.daily_cost > 0

\* ---------------------------------------------------------------- C32
\* C32: record_usage leaves the hourly window untouched (the timestamps and
\* hourly_reset_time are unchanged, also when the hourly reset instant has
\* passed), and check_rate_limit never changes daily_tokens_used or the daily
\* cost except to zero them on a daily rollover.
C32_FrameOfRecordAndCheck ==
    [][/\ (\E u \in UsageChoices : RecordUsage(u[1], u[2]))
              => /\ rate_limiter'.hourly_requests = rate_limiter.hourly_requests
                 /\ rate_limiter'.hourly_reset_time = rate_limiter.hourly_reset_time
       /\ CheckRateLimit
              => IF api_enabled /\ now >= rate_limiter.daily_reset_time
                 THEN /\ rate_limiter'.daily_tokens_used = 0
                      /\ rate_limiter'.daily_estimated_cost = 0
                 ELSE /\ rate_limiter'.daily_tokens_used = rate_limiter.daily_tokens_used
                      /\ rate_limiter'.daily_estimated_cost
                             = rate_limiter.daily_estimated_cost]_vars

\* record_usage has run after the hourly reset instant, the timestamps of the
\* window that has ended still stored.
C32_Witness ==
    /\ last.op = "record_usage" /\ last.at = now
    /\ now >= rate_limiter.hourly_reset_time
    /\ Len(rate_limiter.hourly_requests) >= 1
    /\ rate_limiter.daily_tokens_used > 0

\* ---------------------------------------------------------------- C33
\* The members of a sequence.
Range(seq) == {seq[i] : i \in DOMAIN seq}

\* The counts of a get_stats snapshot.
Counts(ret) ==
    <<ret.hourly_stats.requests_used, ret.hourly_stats.requests_remaining,
      ret.daily_stats.tokens_used>>

\* C33: get_stats is read-only apart from lazy rollover.  It never adds a
\* timestamp and never increases the daily totals; when neither reset instant
\* has been reached it leaves the whole controller as it is; a get_stats that
\* follows a get_stats at the same instant returns the same counts; it
\* succeeds and reports api_enabled as the kill switch stands, false when it
\* is off.
C33_GetStatsReadOnly ==
    [][GetStats
           => /\ Len(rate_limiter'.hourly_requests) <= Len(rate_limiter.hourly_requests)
              /\ Range(rate_limiter'.hourly_requests)
                     \subseteq Range(rate_limiter.hourly_requests)
              /\ rate_limiter'.daily_tokens_used <= rate_limiter.daily_tokens_used
              /\ rate_limiter'.daily_estimated_cost <= rate_limiter.daily_estimated_cost
              /\ (now < rate_limiter.hourly_reset_time /\ now < rate_limiter.daily_reset_time)
                     => rate_limiter' = rate_limiter
              /\ (last.op = "get_stats" /\ last.at = now)
                     => /\ Counts(last'.ret) = Counts(last.ret)
                        /\ rate_limiter' = rate_limiter
              /\ ~Raised(last'.exc)
              /\ last'.ret.api_enabled = api_enabled]_vars

\* With the kill switch off and usage on record, get_stats has answered after
\* the daily boundary.
C33_Witness ==
    /\ last.op = "get_stats" /\ last.at = now
    /\ ~api_enabled /\ last.ret.api_enabled = FALSE
    /\ now >= Midnight(StartTime) + Day
    /\ recordedDay < Today /\ BagSum(recorded, UsageTokens) > 0
    /\ last.ret.daily_stats.tokens_used = 0

\* ---------------------------------------------------------------- C34
\* C34: with the configuration fixed, in every reachable state of the
\* controller the number of stored hourly timestamps is at most the hourly
\* ceiling, so the requests_remaining that get_stats reports is never negative.
C34_CountWithinCeiling ==
    /\ Len(rate_limiter.hourly_requests) <= rate_limit_per_hour
    /\ last.op = "get_stats"
           => /\ last.ret.hourly_stats.requests_remaining >= 0
              /\ last.ret.hourly_stats.requests_used <= rate_limit_per_hour

\* get_stats reports nothing remaining after a call was turned away at the
\* ceiling.
C34_Witness ==
    /\ last.op = "get_stats" /\ last.at = now
    /\ last.ret.hourly_stats.requests_remaining = 0
    /\ Len(rate_limiter.hourly_requests) = rate_limit_per_hour
    /\ nChecks > rate_limit_per_hour

\* ---------------------------------------------------------------- C35
\* The statements of a step: the hourly rollover check, the pruning and the
\* append, of whichever thread.
RolloverCheck == \E t \in Threads : c152(t) \/ g193(t)
Pruning == \E t \in Threads : c154(t) \/ g195(t)
Appending == \E t \in Threads : c160(t)

\* Every stored timestamp is younger than one hour at instant t.
AllYoung(self, t) ==
    \A i \in DOMAIN self.hourly_requests : self.hourly_requests[i] > t - Hour

\* Every stored timestamp was appended after the last hard reset, whose next
\* reset instant is exactly one hour after it.
StoredSinceReset ==
    \A i \in DOMAIN rate_limiter.hourly_requests :
        rate_limiter.hourly_requests[i] >= rate_limiter.hourly_reset_time - Hour

\* C35 as stated: under a non-decreasing clock, after the hourly rollover
\* check of check_rate_limit or get_stats every stored timestamp is younger
\* than one hour, so the trailing-hour pruning never removes an entry and an
\* entry is dropped only by the hard reset.
C35_PruningNeverRemoves ==
    [][/\ RolloverCheck => AllYoung(rate_limiter', now)
       /\ Pruning => rate_limiter'.hourly_requests = rate_limiter.hourly_requests
       /\ Len(rate_limiter'.hourly_requests) < Len(rate_limiter.hourly_requests)
              => /\ RolloverCheck
                 /\ now >= rate_limiter.hourly_reset_time
                 /\ rate_limiter'.hourly_requests = <<>>]_vars

\* C35 amended: under a non-decreasing clock every stored timestamp was
\* appended after the last hard reset and is younger than one hour at the
\* instant of the hourly rollover check; the pruning of a call removes an
\* entry only when the clock has reached hourly_reset_time since that call's
\* rollover check, and apart from that an entry is dropped only by the hard
\* reset.
C35_PruningRemovesOnlyPastReset ==
    [][/\ StoredSinceReset
       /\ RolloverCheck => AllYoung(rate_limiter', now)
       /\ (Pruning /\ now < rate_limiter.hourly_reset_time)
              => rate_limiter'.hourly_requests = rate_limiter.hourly_requests
       /\ Len(rate_limiter'.hourly_requests) < Len(rate_limiter.hourly_requests)
              => \/ /\ RolloverCheck
                    /\ now >= rate_limiter.hourly_reset_time
                    /\ rate_limiter'.hourly_requests = <<>>
                 \/ /\ Pruning
                    /\ now >= rate_limiter.hourly_reset_time
                    /\ AllYoung(rate_limiter', now)]_vars

\* A request was admitted, no hard reset has been made since, and the pruning
\* of a get_stats whose rollover check ran before the reset instant has
\* emptied the window at the reset instant.
C35_Witness ==
    \E t, u \in Threads :
        /\ pc[t] = "g197" /\ frame[t].op = "get_stats"
        /\ pc[u] = "done" /\ result[u].op = "check_rate_limit"
        /\ ~Raised(result[u].exc)
        /\ rate_limiter.hourly_reset_time = StartTime + Hour
        /\ now >= rate_limiter.hourly_reset_time
        /\ rate_limiter.hourly_requests = <<>>

\* ---------------------------------------------------------------- C36
\* C36: the cost check looks only at cost already recorded.  A
\* check_rate_limit that gets as far as the cost check (kill switch on, hourly
\* count below its ceiling) admits the request exactly when the recorded daily
\* cost is below the ceiling, however many admitted requests have not yet
\* called record_usage; record_usage adds in full whatever the total is, so
\* the accrued daily cost is not bounded by the ceiling, and get_stats reports
\* cost_remaining = ceiling - cost unclamped, negative once the cost is above
\* the ceiling.
C36_CostCheckSeesRecordedOnly ==
    /\ (last.op = "check_rate_limit" /\ api_enabled /\ ~IsRateLimitError(last.exc))
           => /\ Raised(last.exc) <=> rate_limiter.daily_estimated_cost >= max_daily_cost
              /\ Raised(last.exc) => IsCostLimitError(last.exc)
              /\ last.at = now
                     => rate_limiter.daily_estimated_cost = BagSum(RecordedToday, UsageCost)
    /\ last.op = "record_usage"
           => /\ last.ret.daily_total_cost = BagSum(recorded, UsageCost)
              /\ rate_limiter.daily_estimated_cost = last.ret.daily_total_cost
    /\ last.op = "get_stats"
           => LET cost == rate_limiter.daily_estimated_cost
                  daily_stats == last.ret.daily_stats
              IN  /\ daily_stats.cost_remaining \in Round4(max_daily_cost - cost)
                  /\ cost >= max_daily_cost + RoundUnit => daily_stats.cost_remaining < 0

\* Two requests were admitted before either recorded its usage; each then
\* recorded 18 $, and get_stats reports a negative cost_remaining, the cost
\* being above the ceiling by more than one request's cost.
C36_Witness ==
    /\ last.op = "get_stats" /\ last.at = now
    /\ now < Midnight(StartTime) + Day
    /\ Len(admitted) = 2
    /\ recorded = [u \in {<<1000000, 1000000>>} |-> 2]
    /\ rate_limiter.daily_estimated_cost = 2 * UsageCost[<<1000000, 1000000>>]
    /\ rate_limiter.daily_estimated_cost
           > max_daily_cost + UsageCost[<<1000000, 1000000>>]
    /\ last.ret.daily_stats.cost_remaining < 0

\* ---------------------------------------------------------------- C37
\* Handler h takes a step from one of the labels.
StepAt(h, labels) ==
    /\ chat[h].pc \in labels
    /\ chat'[h] # chat[h] \/ calls'[h] # calls[h]

\* The labels of an admitted request, and those of them at which the query
\* is under way or has failed.
AfterAdmission == {"m104", "q104", "r66", "g83", "m109", "m112", "m125", "m139", "m148"}
QueryOrFailure == {"m104", "q104", "r66", "g83", "m139", "m148"}

\* The admission check of h passes and stores one timestamp, its own.
TakesOneSlot(h) ==
    (StepAt(h, {"m91"}) /\ chat'[h].pc = "m104")
        => rate_limiter'.hourly_requests = Append(PrunedNow, now)

\* No later step of h touches the hourly window.
NotRefunded(h) ==
    StepAt(h, AfterAdmission)
        => /\ rate_limiter'.hourly_requests = rate_limiter.hourly_requests
           /\ rate_limiter'.hourly_reset_time = rate_limiter.hourly_reset_time

\* The steps of the query and of the failure path leave the controller alone.
QueryLeavesTotals(h) ==
    StepAt(h, QueryOrFailure) => rate_limiter' = rate_limiter

DailyTotalsUnchanged ==
    /\ rate_limiter'.daily_tokens_used = rate_limiter.daily_tokens_used
    /\ rate_limiter'.daily_estimated_cost = rate_limiter.daily_estimated_cost

\* record_usage after an empty retrieval.
RecordsEmpty(h) == StepAt(h, {"m109"}) /\ chat[h].state = "EMPTY_RESULT"

\* C37 as stated: every chat request that passes the admission check consumes
\* exactly one hourly slot whatever happens next; a request that then fails in
\* retrieval or generation, or that gets the empty-retrieval answer, is not
\* refunded, and in those cases the daily tokens and cost are left unchanged.
C37_SlotKeptTotalsUnchanged ==
    [][\A h \in Handlers :
           /\ TakesOneSlot(h)
           /\ NotRefunded(h)
           /\ QueryLeavesTotals(h)
           /\ RecordsEmpty(h) => DailyTotalsUnchanged]_vars

\* C37 amended: the same, but on empty retrieval record_usage, which adds
\* zero, first zeroes the daily tokens and cost when the daily boundary has
\* been reached (the lazy rollover); otherwise it leaves them unchanged.
C37_SlotKeptNothingAdded ==
    [][\A h \in Handlers :
           /\ TakesOneSlot(h)
           /\ NotRefunded(h)
           /\ QueryLeavesTotals(h)
           /\ RecordsEmpty(h)
                  => /\ chat'[h].usage_record.tokens_used = 0
                     /\ chat'[h].usage_record.estimated_cost = 0
                     /\ IF now >= rate_limiter.daily_reset_time
                        THEN /\ rate_limiter'.daily_tokens_used = 0
                             /\ rate_limiter'.daily_estimated_cost = 0
                        ELSE DailyTotalsUnchanged]_vars

\* A request admitted before midnight with cost on record got the
\* empty-retrieval answer after midnight: its slot is still taken and the
\* totals of the day before are gone.
C37_Witness ==
    \E h \in Handlers :
        /\ chat[h].pc = "m112" /\ chat[h].state = "EMPTY_RESULT"
        /\ chat[h].usage_stats.daily_cost > 0
        /\ chat[h].usage_stats.requests_this_hour
               = Len(rate_limiter.hourly_requests)
        /\ now >= Midnight(ChatStart) + Day
        /\ rate_limiter.daily_tokens_used = 0
        /\ rate_limiter.daily_estimated_cost = 0

\* ---------------------------------------------------------------- C38
\* The reset instants a finished call reported: those of the rate-limit error,
\* of the cost-limit error and of the get_stats snapshot.
HourlyReported(r) ==
    IF r.op = "check_rate_limit" /\ IsRateLimitError(r.exc)
    THEN {r.exc.detail.try_again_at}
    ELSE IF r.op = "get_stats" THEN {r.ret.hourly_stats.resets_at}
    ELSE {}
DailyReported(r) ==
    IF r.op = "check_rate_limit" /\ IsCostLimitError(r.exc)
    THEN {r.exc.detail.resets_at}
    ELSE IF r.op = "get_stats" THEN {r.ret.daily_stats.resets_at}
    ELSE {}

\* C38 as stated: the reset timing reported to callers is always in the
\* future.  Whenever check_rate_limit raises the rate-limit error or get_stats
\* returns, the hourly reset instant is later than the current instant and at
\* most one hour away, and the daily reset instant reported by get_stats or by
\* the cost-limit error is later than the current instant and at most 24 hours
\* away.
C38_ResetAlwaysInFuture ==
    \A t \in Threads :
        pc[t] = "done"
            => /\ \A at \in HourlyReported(result[t]) :
                      at > result[t].at /\ at <= result[t].at + Hour
               /\ \A at \in DailyReported(result[t]) :
                      at > result[t].at /\ at <= result[t].at + Day

DailyRolloverCheck == \E t \in Threads : c153(t) \/ g194(t) \/ r172(t)

\* C38 amended: the reset timing reported is in the future as of the call's
\* rollover checks.  After the hourly rollover check hourly_reset_time is
\* later than the instant of that check and at most one hour after it, after
\* the daily one daily_reset_time is later than the instant of that check and
\* at most 24 hours after it; no other statement moves them, and the
\* rate-limit error, the cost-limit error and get_stats report them as they
\* stand.  So a reported reset instant is at most one hour (24 hours) away,
\* and later than the current instant unless the clock has reached it since
\* the call's rollover check.
C38_ResetInFutureAtRolloverCheck ==
    [][/\ RolloverCheck
              => /\ rate_limiter'.hourly_reset_time > now
                 /\ rate_limiter'.hourly_reset_time <= now + Hour
       /\ DailyRolloverCheck
              => /\ rate_limiter'.daily_reset_time > now
                 /\ rate_limiter'.daily_reset_time <= now + Day
       /\ rate_limiter'.hourly_reset_time # rate_limiter.hourly_reset_time => RolloverCheck
       /\ rate_limiter'.daily_reset_time # rate_limiter.daily_reset_time => DailyRolloverCheck
       /\ \A t \in Threads :
              (pc[t] # "done" /\ pc'[t] = "done")
                  => /\ \A at \in HourlyReported(result'[t]) :
                            /\ at = rate_limiter.hourly_reset_time
                            /\ at <= now + Hour
                     /\ \A at \in DailyReported(result'[t]) :
                            /\ at = rate_limiter.daily_reset_time
                            /\ at <= now + Day]_vars

\* The rollover check of a check_rate_limit ran before the reset instant, the
\* ceiling test at it: the rate-limit error names the current instant as the
\* one to try again at, zero minutes away.
C38_Witness ==
    \E t \in Threads :
        /\ pc[t] = "done" /\ result[t].op = "check_rate_limit"
        /\ IsRateLimitError(result[t].exc)
        /\ result[t].exc.detail.try_again_at = result[t].at
        /\ result[t].exc.detail.reset_in_minutes = 0
        /\ rate_limiter.hourly_reset_time = StartTime + Hour

\* ---------------------------------------------------------------- C39
\* Handler h records the usage of its request.
RecordsUsage(h) == StepAt(h, {"m109"})

\* C39: usage of a request admitted before the daily boundary and recorded at
\* or after it is charged to the new day.  Its record_usage, finding the
\* boundary reached, first rolls the daily window over, so that after the call
\* the daily totals are exactly that request's tokens and cost and hold none
\* of the usage of the day before; a record_usage that finds the boundary not
\* reached adds to the totals as they are.
C39_LateUsageChargedToNewDay ==
    [][\A h \in Handlers :
           RecordsUsage(h)
               => LET input_tokens == chat[h].rag_response.input_tokens
                      output_tokens == chat[h].rag_response.output_tokens
                      tokens == input_tokens + output_tokens
                      cost == total_cost(input_tokens, output_tokens)
                      usage_record == chat'[h].usage_record
                  IN  /\ usage_record.tokens_used = tokens
                      /\ usage_record.estimated_cost = cost
                      /\ usage_record.daily_total_tokens = rate_limiter'.daily_tokens_used
                      /\ usage_record.daily_total_cost = rate_limiter'.daily_estimated_cost
                      /\ IF now >= rate_limiter.daily_reset_time
                         THEN /\ rate_limiter'.daily_tokens_used = tokens
                              /\ rate_limiter'.daily_estimated_cost = cost
                              /\ rate_limiter'.daily_reset_time = Midnight(now) + Day
                         ELSE /\ rate_limiter'.daily_tokens_used
                                     = rate_limiter.daily_tokens_used + tokens
                              /\ rate_limiter'.daily_estimated_cost
                                     = rate_limiter.daily_estimated_cost + cost
                              /\ rate_limiter'.daily_reset_time
                                     = rate_limiter.daily_reset_time]_vars

\* A request admitted before midnight with cost of that day on record has
\* recorded its usage after midnight: the totals are its own.
C39_Witness ==
    \E h \in Handlers :
        /\ chat[h].pc = "m112" /\ chat[h].state = "DONE"
        /\ chat[h].usage_stats.daily_cost > 0
        /\ now >= Midnight(ChatStart) + Day
        /\ chat[h].usage_record.tokens_used > 0
        /\ rate_limiter.daily_tokens_used = chat[h].usage_record.tokens_used
        /\ rate_limiter.daily_estimated_cost = chat[h].usage_record.estimated_cost
        /\ rate_limiter.daily_reset_time = Midnight(now) + Day

====
